---- MODULE Spec2Model ----
(***************************************************************************)
(* Model of the self-learning subsystem: the IndexedDB-backed storage      *)
(* (database.ts), the SelfLearningEngine and its learning cycle            *)
(* (learning-engine.ts) and the SummaryQualityAnalyzer                     *)
(* (quality-analyzer.ts).                                                  *)
(*                                                                         *)
(* One action is one browser task: the code of a timer callback, a click   *)
(* handler or an IndexedDB request callback together with the promise      *)
(* continuations (microtasks) it makes runnable.  `await store.put(x)`     *)
(* awaits an IDBRequest, which is not a thenable, so the code after it     *)
(* runs in the same task.                                                  *)
(*                                                                         *)
(* Numbers: weights are in units of 0.00001, averageQuality in units of    *)
(* 0.01, Math.random() in units of 0.001.  Quality scores are exact        *)
(* rationals <<numerator, denominator>>.                                   *)
(***************************************************************************)
EXTENDS Integers, Sequences, FiniteSets, TLC

VARIABLES
    now,            \* Date.now(), in ms relative to the page load
    weightsStore,   \* object store 'learningWeights': set of records, keyed by id
    lastPut,        \* history: id of the record written by the latest successful put
    docCount,       \* number of records in object store 'documents'
    phase,          \* per engine: progress of initialize()
    seen,           \* per engine: result of the getCurrentWeights() issued by initialize()
    isLearning,     \* per engine: SelfLearningEngine.isLearning
    timerSetAt,     \* per engine: time at which startBackgroundLearning() ran
    initialPending, \* per engine: the 5-minute setTimeout has not fired yet
    cyc,            \* per engine: the runLearningCycle() invocations that are suspended
    ev,             \* history: what the last step did
    nStarted,       \* number of learning cycles started so far
    nFaults,        \* number of storage faults so far
    qaIn,           \* quality analyzer: the input of analyzeSummaryQuality
    qaOut,          \* quality analyzer: its result
    smIn,           \* summarizer: the text, the weights record and the summary level
    smRuns,         \* summarizer: the results of the runs on smIn so far
    pdf,            \* PDF reader: the document, the page reached and the text so far
    documents,      \* object store 'documents': ids of the records added since page load
    summaries,      \* object store 'summaries': set of records, keyed by id
    learningMetrics,    \* object store 'learningMetrics': set of records, keyed by id
    batchUrls,      \* admin page: the text of the URL list
    isBatchProcessing,  \* admin page: state isBatchProcessing
    batchResults,   \* admin page: state batchResults
    batch,          \* the running batch: its kind, urls, index, results and position
    urlLog,         \* history: the items a batch has handled, with their times
    extractedText,  \* main page: state extractedText
    currentDocumentId,  \* main page: state currentDocumentId
    summaryShown,   \* main page: state summary
    keyPhrasesShown,    \* main page: state keyPhrases
    isProcessing,   \* main page: state isProcessing
    summaryLevel,   \* main page: state summaryLevel
    currentStep,    \* main page: state currentStep
    gen,            \* main page: the running generateSummary and its locals
    analyses        \* the analyzeSummaryQuality invocations that are suspended

vars == <<now, weightsStore, lastPut, docCount, phase, seen, isLearning,
          timerSetAt, initialPending, cyc, ev, nStarted, nFaults, qaIn, qaOut,
          smIn, smRuns, pdf, documents, summaries, learningMetrics, batchUrls,
          isBatchProcessing, batchResults, batch, urlLog, extractedText,
          currentDocumentId, summaryShown, keyPhrasesShown, isProcessing,
          summaryLevel, currentStep, gen, analyses>>

engineVars == <<now, weightsStore, lastPut, docCount, phase, seen, isLearning,
                timerSetAt, initialPending, cyc, nStarted, nFaults>>

\* the object stores that recordDocument, recordSummary and the analysis write
recordVars == <<documents, summaries, learningMetrics>>

urlVars == <<batchUrls, isBatchProcessing, batchResults, batch, urlLog>>

pageVars == <<extractedText, currentDocumentId, summaryShown, keyPhrasesShown,
              isProcessing, summaryLevel, currentStep, gen, analyses>>

qaVars == <<qaIn, qaOut>>

\* the Summarizer's and the PDF reader's inputs and results
smVars == <<smIn, smRuns, pdf>>

\* the variables that no step of initialize() or of a learning cycle changes
nonEngineVars == <<qaVars, smVars, summaries, learningMetrics, urlVars, pageVars>>

(***************************************************************************)
(* Bounds                                                                  *)
(***************************************************************************)
MaxClock == 2
MaxCycles == 2
MaxFaults == 1
MaxNewDocs == 1

\* the main page and the admin page each construct one SelfLearningEngine
Engines == {"main", "admin"}
\* sample values of the random suffix of an id
RandVals == {0, 1}

(***************************************************************************)
(* Small helpers                                                           *)
(***************************************************************************)
Max(a, b) == IF a >= b THEN a ELSE b
Min(a, b) == IF a <= b THEN a ELSE b

Char(s, i) == SubSeq(s, i, i)

\* the element of a set of one element: The({e(x) : x \in {v}}) is e(v),
\* with v evaluated once however often e uses it
The(S) == CHOOSE x \in S : TRUE

RemoveAt(q, i) == SubSeq(q, 1, i - 1) \o SubSeq(q, i + 1, Len(q))

(***************************************************************************)
(* Strings: String.prototype.split with a one-character separator,         *)
(* parseInt and number-to-string, as incrementVersion uses them.           *)
(***************************************************************************)
DigitChars == "0123456789"

IsDigit(c) == c \in {"0", "1", "2", "3", "4", "5", "6", "7", "8", "9"}

DigitVal(c) == CHOOSE d \in 0..9 : Char(DigitChars, d + 1) = c

\* parseInt yields NaN for a string that does not start with a digit
NaN == -1

RECURSIVE SplitChars(_, _, _, _)
\* the pieces of s[lo..hi] between its separator characters, computed by
\* halving the range: the last piece of the left half continues in the
\* first piece of the right half
SplitChars(s, seps, lo, hi) ==
    IF lo > hi THEN <<"">>
    ELSE IF lo = hi THEN (IF Char(s, lo) \in seps THEN <<"", "">> ELSE <<Char(s, lo)>>)
    ELSE The({The({SubSeq(left, 1, Len(left) - 1)
                       \o <<left[Len(left)] \o right[1]>>
                       \o SubSeq(right, 2, Len(right)) :
                   left \in {SplitChars(s, seps, lo, mid)},
                   right \in {SplitChars(s, seps, mid + 1, hi)}}) :
              mid \in {(lo + hi) \div 2}})

\* s.split(sep) for a one-character separator
Split(s, sep) == The({SplitChars(t, {sep}, 1, Len(t)) : t \in {s}})

RECURSIVE ParseDigits(_, _, _)
ParseDigits(s, i, acc) ==
    IF i > Len(s) \/ ~IsDigit(Char(s, i)) THEN acc
    ELSE ParseDigits(s, i + 1, acc * 10 + DigitVal(Char(s, i)))

ParseInt(s) ==
    IF Len(s) = 0 \/ ~IsDigit(Char(s, 1)) THEN NaN ELSE ParseDigits(s, 1, 0)

RECURSIVE NatToStr(_)
NatToStr(n) ==
    IF n < 10 THEN Char(DigitChars, n + 1)
    ELSE NatToStr(n \div 10) \o Char(DigitChars, (n % 10) + 1)

NumToStr(n) == IF n = NaN THEN "NaN" ELSE NatToStr(n)

\* parts[i] of a template string: a missing element prints as "undefined"
Part(parts, i) == IF i <= Len(parts) THEN parts[i] ELSE "undefined"

incrementVersion(version) ==
    The({LET third == IF Len(parts) >= 3 /\ parts[3] # "" THEN parts[3] ELSE "0"
             parsed == ParseInt(third)
             patch == IF parsed = NaN THEN NaN ELSE parsed + 1
         IN  Part(parts, 1) \o "." \o Part(parts, 2) \o "." \o NumToStr(patch) :
         parts \in {Split(version, ".")}})

(***************************************************************************)
(* Strings as the quality analyzer uses them                               *)
(***************************************************************************)
Whitespace == {" ", "\t", "\n", "\r"}
Terminators == {".", "!", "?"}
UpperChars == "ABCDEFGHIJKLMNOPQRSTUVWXYZ"
LowerChars == "abcdefghijklmnopqrstuvwxyz"

IsUpper(c) == \E k \in 1..26 : Char(UpperChars, k) = c
IsLower(c) == \E k \in 1..26 : Char(LowerChars, k) = c

\* \w of a regular expression
IsWordChar(c) == IsUpper(c) \/ IsLower(c) \/ IsDigit(c) \/ c = "_"

LowerOf(c) ==
    IF IsUpper(c) THEN Char(LowerChars, CHOOSE k \in 1..26 : Char(UpperChars, k) = c)
    ELSE c

RECURSIVE MapChars(_, _, _, _)
\* the string of F(c) for the characters c of s[lo..hi]
MapChars(s, F(_), lo, hi) ==
    IF lo > hi THEN ""
    ELSE IF lo = hi THEN The({F(c) : c \in {Char(s, lo)}})
    ELSE The({MapChars(s, F, lo, mid) \o MapChars(s, F, mid + 1, hi) :
              mid \in {(lo + hi) \div 2}})

\* String.prototype.toLowerCase
ToLower(s) == The({MapChars(t, LowerOf, 1, Len(t)) : t \in {s}})

RECURSIVE FilterRange(_, _, _, _)
\* the elements q[i], lo <= i <= hi, with Keep(i), in order
FilterRange(q, Keep(_), lo, hi) ==
    IF lo > hi THEN <<>>
    ELSE IF lo = hi THEN (IF Keep(lo) THEN <<q[lo]>> ELSE <<>>)
    ELSE The({FilterRange(q, Keep, lo, mid) \o FilterRange(q, Keep, mid + 1, hi) :
              mid \in {(lo + hi) \div 2}})

\* s.split(/[seps]+/): a run of separators separates once, so the empty
\* pieces between two adjacent separators are no pieces; a separator at
\* either end of s leaves an empty piece there
SplitRuns(s, seps) ==
    The({The({LET Keep(i) == i = 1 \/ i = Len(pieces) \/ pieces[i] # ""
              IN  FilterRange(pieces, Keep, 1, Len(pieces)) :
              pieces \in {SplitChars(t, seps, 1, Len(t))}}) :
         t \in {s}})

\* String.prototype.trim: from the first to the last character that is
\* not white space
Trim(s) ==
    The({The({IF solid = {} THEN ""
              ELSE SubSeq(t, CHOOSE i \in solid : \A j \in solid : i <= j,
                             CHOOSE i \in solid : \A j \in solid : i >= j) :
              solid \in {{i \in 1..Len(t) : Char(t, i) \notin Whitespace}}}) :
         t \in {s}})

\* String.prototype.includes
Includes(s, sub) ==
    \E t \in {s}, u \in {sub} :
        \E i \in 1..(Len(t) - Len(u) + 1) : SubSeq(t, i, i + Len(u) - 1) = u

WordCharOrNothing(c) == IF IsWordChar(c) THEN c ELSE ""

\* word.replace(/[^\w]/g, '')
KeepWordChars(w) == The({MapChars(t, WordCharOrNothing, 1, Len(t)) : t \in {w}})

\* /^\d+$/.test(w)
AllDigits(w) == \E t \in {w} : Len(t) > 0 /\ \A i \in 1..Len(t) : IsDigit(Char(t, i))

\* Array.prototype.filter
FilterSeq(q, Keep(_)) ==
    The({LET KeepAt(i) == Keep(p[i]) IN FilterRange(p, KeepAt, 1, Len(p)) : p \in {q}})

RECURSIVE MapRange(_, _, _, _)
\* Array.prototype.map on q[lo..hi]
MapRange(q, F(_), lo, hi) ==
    IF lo > hi THEN <<>>
    ELSE IF lo = hi THEN <<F(q[lo])>>
    ELSE The({MapRange(q, F, lo, mid) \o MapRange(q, F, mid + 1, hi) :
              mid \in {(lo + hi) \div 2}})

MapSeq(q, F(_)) == The({MapRange(p, F, 1, Len(p)) : p \in {q}})

RECURSIVE SumRange(_, _, _, _)
SumRange(q, Term(_), lo, hi) ==
    IF lo > hi THEN 0
    ELSE IF lo = hi THEN Term(q[lo])
    ELSE The({SumRange(q, Term, lo, mid) + SumRange(q, Term, mid + 1, hi) :
              mid \in {(lo + hi) \div 2}})

\* Array.prototype.reduce with an added term per element
SumSeq(q, Term(_)) == The({SumRange(p, Term, 1, Len(p)) : p \in {q}})

SeqRange(q) == The({{p[i] : i \in 1..Len(p)} : p \in {q}})

\* number of elements of q equal to x
CountOf(q, x) == The({Cardinality({i \in 1..Len(p) : p[i] = y}) : p \in {q}, y \in {x}})

(***************************************************************************)
(* Exact rational numbers <<numerator, denominator>>, denominator > 0      *)
(***************************************************************************)
RECURSIVE Gcd(_, _)
Gcd(a, b) == IF b = 0 THEN a ELSE Gcd(b, a % b)

Abs(a) == IF a < 0 THEN -a ELSE a

Rat(n, d) ==
    LET g == Gcd(Abs(n), d) IN <<n \div g, d \div g>>

\* sums over the least common denominator and products with the common
\* factors removed first keep the intermediate numbers small
RAdd(x, y) ==
    LET g == Gcd(x[2], y[2])
    IN  Rat(x[1] * (y[2] \div g) + y[1] * (x[2] \div g), (x[2] \div g) * y[2])
RSub(x, y) == RAdd(x, <<-y[1], y[2]>>)
RMul(x, y) ==
    LET a == Rat(x[1], y[2])
        b == Rat(y[1], x[2])
    IN  <<a[1] * b[1], a[2] * b[2]>>
\* x / y for y > 0
RDiv(x, y) == RMul(x, <<y[2], y[1]>>)
RLe(x, y) == x[1] * y[2] <= y[1] * x[2]
RLt(x, y) == x[1] * y[2] < y[1] * x[2]
RMin(x, y) == IF RLe(x, y) THEN x ELSE y
RMax(x, y) == IF RLe(x, y) THEN y ELSE x
Zero == Rat(0, 1)
One == Rat(1, 1)

(***************************************************************************)
(* SummaryQualityAnalyzer (quality-analyzer.ts)                            *)
(***************************************************************************)
NonBlank(x) == Len(Trim(x)) > 0

\* summary.split(/[.!?]+/).filter(s => s.trim().length > 0)
SentencesOf(summary) == FilterSeq(SplitRuns(summary, Terminators), NonBlank)

transitionWords ==
    <<"however", "therefore", "furthermore", "moreover", "consequently",
      "thus", "additionally", "meanwhile", "nevertheless", "nonetheless",
      "first", "second", "third", "finally", "in conclusion", "to summarize">>

calculateCoherence(summary) ==
    LET sentences == SentencesOf(summary)
        n == Len(sentences)
        summaryLower == ToLower(summary)
        found == Cardinality({k \in 1..Len(transitionWords) :
                                 Includes(summaryLower, transitionWords[k])})
        LenOf(x) == Len(x)
        SqLenOf(x) == Len(x) * Len(x)
        total == SumSeq(sentences, LenOf)
        squares == SumSeq(sentences, SqLenOf)
        \* avgLength = total / n; lengthVariance = squares / n - avgLength^2
        avgLength == Rat(total, n)
        lengthVariance == RSub(Rat(squares, n), RMul(avgLength, avgLength))
        lengthConsistency ==
            RMax(Zero, RSub(One, RDiv(lengthVariance, RMul(avgLength, avgLength))))
        words == SplitRuns(summaryLower, Whitespace)
        repetitionScore == Rat(Cardinality(SeqRange(words)), Len(words))
        coherenceScore ==
            RAdd(RAdd(Rat(found, 10), RMul(lengthConsistency, Rat(3, 10))),
                 RMul(repetitionScore, Rat(4, 10)))
    IN  IF n < 2 THEN Rat(1, 2) ELSE RMin(One, coherenceScore)

stopWords ==
    {"the", "a", "an", "and", "or", "but", "in", "on", "at", "to", "for", "of",
     "with", "by", "is", "are", "was", "were", "be", "been", "being", "have",
     "has", "had", "do", "does", "did", "will", "would", "could", "should",
     "may", "might", "must", "can", "this", "that", "these", "those"}

Meaningful(w) == Len(w) >= 3 /\ w \notin stopWords /\ ~AllDigits(w)

\* word => word.replace(/[^\w]/g, '').toLowerCase()
CleanWord(w) == ToLower(KeepWordChars(w))

extractMeaningfulWords(text) ==
    FilterSeq(MapSeq(SplitRuns(text, Whitespace), CleanWord), Meaningful)

\* getWordFrequency: the count of each word divided by the greatest count
MaxCount(words) ==
    CHOOSE m \in {CountOf(words, w) : w \in SeqRange(words)} :
        \A w \in SeqRange(words) : CountOf(words, w) <= m

getWordFrequency(words, w) == Rat(CountOf(words, w), MaxCount(words))

calculateRelevance(originalText, summary) ==
    LET originalWords == extractMeaningfulWords(ToLower(originalText))
        summaryWords == extractMeaningfulWords(ToLower(summary))
        m == Len(summaryWords)
        InOriginal(w) == w \in SeqRange(originalWords)
        commonWords == FilterSeq(summaryWords, InOriginal)
        wordOverlap == Rat(Len(commonWords), m)
        \* Math.min(originalFreq[word] || 0, summaryFreq[word] || 0)
        Weight(w) ==
            RMin(IF InOriginal(w) THEN getWordFrequency(originalWords, w) ELSE Zero,
                 getWordFrequency(summaryWords, w))
        RECURSIVE SumWeights(_, _)
        SumWeights(lo, hi) ==
            IF lo > hi THEN Zero
            ELSE IF lo = hi THEN Weight(summaryWords[lo])
            ELSE RAdd(SumWeights(lo, (lo + hi) \div 2),
                      SumWeights((lo + hi) \div 2 + 1, hi))
        semanticScore == RDiv(SumWeights(1, m), Rat(m, 1))
    IN  IF Len(originalWords) = 0 \/ m = 0 THEN Zero
        ELSE RAdd(RMul(wordOverlap, Rat(6, 10)), RMul(semanticScore, Rat(4, 10)))

\* the compression score without Math.max(0, ...)
calculateCompressionRatioNoClamp(originalText, summary) ==
    LET originalLength == Len(originalText)
        ratio == Rat(Len(summary), originalLength)
    IN  IF originalLength = 0 THEN Zero
        ELSE IF RLe(Rat(1, 10), ratio) /\ RLe(ratio, Rat(3, 10)) THEN One
        ELSE IF RLt(ratio, Rat(1, 10)) THEN RDiv(ratio, Rat(1, 10))
        ELSE RSub(One, RDiv(RSub(ratio, Rat(3, 10)), Rat(7, 10)))

calculateCompressionRatio(originalText, summary) ==
    LET originalLength == Len(originalText)
        summaryLength == Len(summary)
        ratio == Rat(summaryLength, originalLength)
    IN  IF originalLength = 0 THEN Zero
        ELSE IF RLe(Rat(1, 10), ratio) /\ RLe(ratio, Rat(3, 10)) THEN One
        ELSE IF RLt(ratio, Rat(1, 10)) THEN RDiv(ratio, Rat(1, 10))
        ELSE RMax(Zero, RSub(One, RDiv(RSub(ratio, Rat(3, 10)), Rat(7, 10))))

\* the coverage without toLowerCase
calculateKeywordCoverageCaseSensitive(originalText, summary, keyPhrases) ==
    LET Covered(phrase) == Includes(summary, phrase)
    IN  IF Len(keyPhrases) = 0 THEN Rat(1, 2)
        ELSE Rat(Len(FilterSeq(keyPhrases, Covered)), Len(keyPhrases))

calculateKeywordCoverage(originalText, summary, keyPhrases) ==
    LET summaryLower == ToLower(summary)
        Covered(phrase) == Includes(summaryLower, ToLower(phrase))
        coveredKeywords == FilterSeq(keyPhrases, Covered)
    IN  IF Len(keyPhrases) = 0 THEN Rat(1, 2)
        ELSE Rat(Len(coveredKeywords), Len(keyPhrases))

\* the score of one sentence, in tenths
sentenceScore(sentence) ==
    LET t == Trim(sentence)
        wordCount == Len(SplitRuns(t, Whitespace))
        base == IF wordCount >= 10 /\ wordCount <= 25 THEN 10
                ELSE IF wordCount >= 8 /\ wordCount <= 30 THEN 7
                ELSE 3
        hasCapitalization == Len(t) > 0 /\ IsUpper(Char(t, 1))
        hasProperEnding == Len(t) > 0 /\ Char(t, Len(t)) \in Terminators
    IN  base + (IF hasCapitalization THEN 1 ELSE 0)
             + (IF hasProperEnding THEN 1 ELSE 0)

calculateSentenceQuality(summary) ==
    LET sentences == SentencesOf(summary)
    IN  IF Len(sentences) = 0 THEN Zero
        ELSE RDiv(Rat(SumSeq(sentences, sentenceScore), 10), Rat(Len(sentences), 1))

analyzeSummaryQuality(originalText, summary, keyPhrases) ==
    LET coherenceScore == calculateCoherence(summary)
        relevanceScore == calculateRelevance(originalText, summary)
        compressionRatio == calculateCompressionRatio(originalText, summary)
        keywordCoverage == calculateKeywordCoverage(originalText, summary, keyPhrases)
        sentenceQuality == calculateSentenceQuality(summary)
        overallScore ==
            RAdd(RAdd(RAdd(RAdd(RMul(coherenceScore, Rat(25, 100)),
                                RMul(relevanceScore, Rat(3, 10))),
                           RMul(compressionRatio, Rat(15, 100))),
                      RMul(keywordCoverage, Rat(2, 10))),
                 RMul(sentenceQuality, Rat(1, 10)))
    IN  [coherenceScore |-> coherenceScore,
         relevanceScore |-> relevanceScore,
         compressionRatio |-> compressionRatio,
         keywordCoverage |-> keywordCoverage,
         sentenceQuality |-> sentenceQuality,
         overallScore |-> overallScore]

LowCoherence == "Low coherence - summary lacks logical flow"
LowRelevance == "Low relevance - summary may not capture main content"
PoorCompression == "Poor compression ratio - summary may be too long or too short"
LowCoverage == "Low keyword coverage - important terms missing"
PoorSentences == "Poor sentence quality - sentences may be too short or malformed"
TooBrief == "Summary too brief - needs more sentences"
GenerationError == "Error in summary generation"

\* `if (cond) issues.push(issue)`
IssueIf(cond, issue) == IF cond THEN <<issue>> ELSE <<>>

\* the five threshold tests of detectIssues, in the order of the code
thresholdIssues(metrics) ==
    IssueIf(RLt(metrics.coherenceScore, Rat(4, 10)), LowCoherence)
        \o IssueIf(RLt(metrics.relevanceScore, Rat(5, 10)), LowRelevance)
        \o IssueIf(RLt(metrics.compressionRatio, Rat(3, 10)), PoorCompression)
        \o IssueIf(RLt(metrics.keywordCoverage, Rat(4, 10)), LowCoverage)
        \o IssueIf(RLt(metrics.sentenceQuality, Rat(6, 10)), PoorSentences)

\* `summary.split(/[.!?]+/).length < 3`
tooBrief(summary) == Len(SplitRuns(summary, Terminators)) < 3

\* `summary.includes('Unable to') || summary.includes('Error:')`
generationFailed(summary) == Includes(summary, "Unable to") \/ Includes(summary, "Error:")

detectIssues(metrics, summary) ==
    thresholdIssues(metrics)
        \o IssueIf(tooBrief(summary), TooBrief)
        \o IssueIf(generationFailed(summary), GenerationError)

(***************************************************************************)
(* The store of weights records (database.ts)                              *)
(***************************************************************************)
\* the value null
Null == [null |-> TRUE]

\* Order of two id keys.  An id is Date.now().toString(36) followed by the
\* base-36 digits of Math.random(): IndexedDB compares the strings, the
\* clock part has 8 digits for every date from 1972 to 2059, so ids compare
\* by clock value first and by the random fraction second.
IdLess(a, b) == a.t < b.t \/ (a.t = b.t /\ a.r < b.r)

StoreIds(store) == {rec.id : rec \in store}

\* store.put(weights): adds the record, replacing a record with the same key
Put(store, rec) == {x \in store : x.id # rec.id} \cup {rec}

\* getCurrentWeights: openCursor(null, 'prev') yields the record with the
\* greatest key, or null for an empty store
GetCurrent(store) ==
    IF store = {} THEN Null
    ELSE CHOOSE rec \in store : \A x \in store : x.id = rec.id \/ IdLess(x.id, rec.id)

\* getRecentDocuments(limit): the cursor stops after limit records
RecentCount(count, limit) == Min(count, limit)

LookbackLimit == 20
MinDocuments == 5

(***************************************************************************)
(* Weights (learning-engine.ts)                                            *)
(***************************************************************************)
WeightNames == {"positionWeight", "lengthWeight", "keywordWeight",
                "importancePhraseWeight", "academicTermWeight", "questionWeight"}

Floor ==
    [positionWeight |-> 100000, lengthWeight |-> 100000, keywordWeight |-> 50000,
     importancePhraseWeight |-> 100000, academicTermWeight |-> 50000,
     questionWeight |-> 50000]

DefaultWeightValues ==
    [positionWeight |-> 400000, lengthWeight |-> 300000, keywordWeight |-> 100000,
     importancePhraseWeight |-> 250000, academicTermWeight |-> 150000,
     questionWeight |-> 100000]

\* generateId at clock value t with random fraction r
generateId(t, r) == [t |-> t, r |-> r]

\* Two calls of generateId in the same millisecond get different random
\* suffixes (53 random bits): an id already in the store is not drawn again.
FreshRand(t) == {r \in RandVals : generateId(t, r) \notin StoreIds(weightsStore)}

defaultWeights(id, t) ==
    [id |-> id, version |-> "1.0.0", weights |-> DefaultWeightValues,
     averageQuality |-> 0, documentsProcessed |-> 0, lastUpdated |-> t]

\* (Math.random() - 0.5) * adjustmentFactor, Math.random() = rnd / 1000
Delta(rnd) == (rnd - 500) * 5

AdjustNoFloor(w, rnd, floor) == w + Delta(rnd)

\* Math.max(floor, w + (Math.random() - 0.5) * adjustmentFactor)
Adjust(w, rnd, floor) == Max(floor, w + Delta(rnd))

\* the six values of Math.random() of one adjustment
DrawVectors ==
    { [n \in WeightNames |-> 0],
      [n \in WeightNames |-> 999] }

newWeightsKeepId(cur, id, draws, ndocs, t) ==
    [id |-> cur.id,
     version |-> incrementVersion(cur.version),
     weights |-> [n \in WeightNames |-> Adjust(cur.weights[n], draws[n], Floor[n])],
     averageQuality |-> Min(100, cur.averageQuality + 1),
     documentsProcessed |-> cur.documentsProcessed + ndocs,
     lastUpdated |-> t]

\* the record analyzeAndAdjustWeights builds from the current record
newWeights(cur, id, draws, ndocs, t) ==
    [id |-> id,
     version |-> incrementVersion(cur.version),
     weights |-> [n \in WeightNames |-> Adjust(cur.weights[n], draws[n], Floor[n])],
     averageQuality |-> Min(100, cur.averageQuality + 1),
     documentsProcessed |-> cur.documentsProcessed + ndocs,
     lastUpdated |-> t]

\* A record left in the store by earlier sessions: after at least 120
\* adjustment cycles each weight can be just above its floor.
PriorRecord ==
    [id |-> generateId(0, 0), version |-> "1.0.199",
     weights |-> [n \in WeightNames |-> Floor[n] + 10],
     averageQuality |-> 100, documentsProcessed |-> 2000, lastUpdated |-> 0]

InitStores == {{}, {PriorRecord}}
InitDocCounts == {4, 19}

(***************************************************************************)
(* Text Analyzer and Summarizer of the main page (src/unnamed/part_000).   *)
(* Scores are exact, in units of 0.0000001: a weight w (in units of        *)
(* 0.00001) counts w * 100, w * 0.75 counts w * 75, w * 0.67 counts w * 67.*)
(***************************************************************************)
EndsWith(w, suffix) ==
    \E t \in {w} :
        Len(t) >= Len(suffix) /\ SubSeq(t, Len(t) - Len(suffix) + 1, Len(t)) = suffix

RECURSIVE JoinRange(_, _, _, _)
JoinRange(q, sep, lo, hi) ==
    IF lo > hi THEN ""
    ELSE IF lo = hi THEN q[lo]
    ELSE The({JoinRange(q, sep, lo, mid) \o sep \o JoinRange(q, sep, mid + 1, hi) :
              mid \in {(lo + hi) \div 2}})

\* Array.prototype.join
Join(q, sep) == The({JoinRange(p, sep, 1, Len(p)) : p \in {q}})

\* Array.prototype.slice(0, n)
Slice(q, n) == The({SubSeq(p, 1, Min(n, Len(p))) : p \in {q}})

\* Array.prototype.sort with a comparator that is the difference of an
\* integer key: ascending in key[i], the key of q[i], and stable
SortByKey(q, key) ==
    The({LET rank(i) == Cardinality({j \in 1..Len(p) :
                            k[j] < k[i] \/ (k[j] = k[i] /\ j < i)})
         IN  SubSeq([r \in 1..Len(p) |-> p[CHOOSE i \in 1..Len(p) : rank(i) = r - 1]],
                    1, Len(p)) :
         p \in {q}, k \in {SubSeq(key, 1, Len(q))}})

\* the elements of q without the repetitions of an earlier element:
\* [...new Set(q)], and the keys of an object in insertion order
Distinct(q) ==
    The({LET First(i) == \A j \in 1..(i - 1) : p[j] # p[i]
         IN  FilterRange(p, First, 1, Len(p)) : p \in {q}})

analyzerStopWords ==
    {"the", "a", "an", "and", "or", "but", "in", "on", "at", "to", "for", "of",
     "with", "by", "is", "are", "was", "were", "be", "been", "being", "have",
     "has", "had", "do", "does", "did"}

\* wordFreq is a plain object: wordFreq[key] of these keys is inherited from
\* Object.prototype, so `(wordFreq[key] || 0) + 1` is not a number
inheritedKeys == {"constructor", "__proto__"}

\* the test of analyzeText on a cleaned word
Counted(w) ==
    /\ Len(w) >= 4
    /\ w \notin analyzerStopWords
    /\ ~AllDigits(w)
    /\ \E i \in 1..Len(w) : IsLower(Char(w, i))

academicSuffixes == {"tion", "sion", "ment", "ness", "ity", "ism", "ogy", "ics"}

academicStems == {"analysis", "research", "study", "method", "theory", "concept"}

HasAcademicSuffix(w) == \E suffix \in academicSuffixes : EndsWith(w, suffix)

IsAcademicTerm(w) ==
    HasAcademicSuffix(w) \/ \E stem \in academicStems : Includes(w, stem)

\* a filter that keeps every fragment that is not blank
LongEnoughAny(s) == Len(Trim(s)) > 0

\* text.split(/[.!?]+/).filter((s) => s.trim().length > 15)
LongEnough(s) == Len(Trim(s)) > 15

analyzeText(text) ==
    The({LET Frequent(w) ==
                 w \notin inheritedKeys /\ CountOf(counted, w) >= 2 /\ Len(w) >= 4
             Sorted(entries) ==
                 SortByKey(entries, [i \in 1..Len(entries) |-> -CountOf(counted, entries[i])])
             TopWords(meaningfulWords) ==
                 Slice(Distinct(FilterSeq(meaningfulWords, IsAcademicTerm) \o meaningfulWords), 8)
         IN  [sentences |-> FilterSeq(SplitRuns(text, Terminators), LongEnough),
              topWords |->
                  The({TopWords(meaningfulWords) :
                       meaningfulWords \in
                           {Slice(The({Sorted(entries) :
                                       entries \in {FilterSeq(Distinct(counted), Frequent)}}),
                                  12)}})] :
         counted \in {FilterSeq(MapSeq(SplitRuns(ToLower(text), Whitespace), CleanWord),
                                Counted)}})

importantPhrases ==
    {"in conclusion", "to summarize", "the main", "key finding", "important",
     "significant", "research shows", "study reveals", "analysis indicates",
     "results suggest", "evidence shows", "data indicates", "findings demonstrate"}

questionWords == {"what", "how", "why", "when", "where", "who", "which"}

\* the weights of the Summarizer when there is no weights record
fallbackWeights ==
    [positionWeight |-> 400000, lengthWeight |-> 300000, keywordWeight |-> 100000,
     importancePhraseWeight |-> 250000, academicTermWeight |-> 150000,
     questionWeight |-> 100000]

\* no weight counts
learningWeightsZero(weights) == [n \in DOMAIN fallbackWeights |-> 0]

\* weights?.weights || { ... }
learningWeightsOf(weights) ==
    IF weights = Null THEN fallbackWeights ELSE weights.weights

\* the score of the sentence at (0-based) index of count sentences
scoreSentence(sentence, index, count, topWords, w) ==
    The({LET wordCount == Len(words)
             IsKeyword(word) == KeepWordChars(word) \in keywords
             keywordCount == Len(FilterSeq(words, IsKeyword))
             phraseCount == Cardinality({p \in importantPhrases : Includes(lowerSentence, p)})
             academicCount == Len(FilterSeq(words, HasAcademicSuffix))
             questionCount == Cardinality({q \in questionWords : Includes(lowerSentence, q)})
         IN    (IF index * 100 < count * 15 THEN w.positionWeight * 100 ELSE 0)
             + (IF index * 100 > count * 85 THEN w.positionWeight * 75 ELSE 0)
             + (IF index * 10 >= count * 4 /\ index * 10 <= count * 6
                THEN w.positionWeight * 50 ELSE 0)
             + (IF wordCount >= 10 /\ wordCount <= 30 THEN w.lengthWeight * 100 ELSE 0)
             + (IF wordCount >= 15 /\ wordCount <= 25 THEN w.lengthWeight * 67 ELSE 0)
             + keywordCount * w.keywordWeight * 100
             + phraseCount * w.importancePhraseWeight * 100
             + academicCount * w.academicTermWeight * 100
             + questionCount * w.questionWeight * 100 :
         lowerSentence \in {ToLower(sentence)},
         words \in {SplitRuns(ToLower(sentence), Whitespace)},
         keywords \in {SeqRange(topWords)}})

scoredSentences(sentences, topWords, w) ==
    The({SubSeq([i \in 1..Len(ss) |->
                    [sentence |-> Trim(ss[i]),
                     score |-> scoreSentence(ss[i], i - 1, Len(ss), tw, lw),
                     index |-> i - 1]],
                1, Len(ss)) :
         ss \in {sentences}, tw \in {topWords}, lw \in {w}})

\* a number of sentences that grows with the clock
numSentencesByClock(count, level) == now

\* Math.min(hi, Math.max(lo, Math.floor(count * percent / 100)))
numSentences(count, level) ==
    IF level = "professor" THEN Min(12, Max(4, (count * 20) \div 100))
    ELSE Min(8, Max(3, (count * 15) \div 100))

Salient(item) == item.score > 0

\* the salient sentences left in the order of the text
sortByScoreSkipped(items) == items

\* .sort((a, b) => b.score - a.score)
sortByScore(items) ==
    The({SortByKey(its, [i \in 1..Len(its) |-> -its[i].score]) : its \in {items}})

\* the selection left in the order of the scores
sortByIndexSkipped(items) == items

sortByIndex(items) ==
    The({SortByKey(its, [i \in 1..Len(its) |-> its[i].index]) : its \in {items}})

topSentences(sentences, topWords, w, level) ==
    The({sortByIndex(Slice(sortByScore(FilterSeq(scoredSentences(ss, topWords, w), Salient)),
                           numSentences(Len(ss), level))) :
         ss \in {sentences}})

SentenceOf(item) == item.sentence

NoSentences == "Unable to generate summary from the extracted text."

NoSalientSentences == "Unable to generate a meaningful summary from the extracted text."

generateIntelligentSummaryWithLearning(text, weights, level) ==
    The({IF Len(analysis.sentences) = 0
         THEN [summary |-> NoSentences, keyPhrases |-> <<>>]
         ELSE The({IF Len(top) = 0
                   THEN [summary |-> NoSalientSentences, keyPhrases |-> <<>>]
                   ELSE [summary |-> Join(MapSeq(top, SentenceOf), ". ") \o ".",
                         keyPhrases |-> Slice(analysis.topWords, 8)] :
                   top \in {topSentences(analysis.sentences, analysis.topWords,
                                         learningWeightsOf(weights), level)}}) :
         analysis \in {analyzeText(text)}})

(***************************************************************************)
(* URLPDFExtractor (url-extractor.ts)                                      *)
(***************************************************************************)
IsAlpha(c) == IsUpper(c) \/ IsLower(c)

\* the position of the first character of s that is in cs, 0 if there is none
FirstOf(s, cs) ==
    LET hits == {i \in 1..Len(s) : Char(s, i) \in cs}
    IN  IF hits = {} THEN 0 ELSE CHOOSE i \in hits : \A j \in hits : i <= j

\* s from its first character that is not in cs
SkipLeading(s, cs) ==
    LET solid == {i \in 1..Len(s) : Char(s, i) \notin cs}
    IN  IF solid = {} THEN ""
        ELSE SubSeq(s, CHOOSE i \in solid : \A j \in solid : i <= j, Len(s))

\* new URL(url) without a base, for the URLs of the form
\* scheme:[//host][/path][?query][#fragment]: the protocol is the scheme in
\* lower case with its colon, the pathname ends before the first ? or #,
\* and is "/" when an http(s) URL has none.  The constructor throws (Null)
\* when the string has no scheme or an http(s) URL has no host.
ParseURL(url) ==
    LET u == Trim(url)
        colon == FirstOf(u, {":"})
        scheme == SubSeq(u, 1, colon - 1)
        validScheme ==
            /\ colon > 1
            /\ IsAlpha(Char(u, 1))
            /\ \A i \in 1..Len(scheme) :
                  IsAlpha(Char(scheme, i)) \/ IsDigit(Char(scheme, i))
                      \/ Char(scheme, i) \in {"+", "-", "."}
        protocol == ToLower(scheme) \o ":"
        rest == SkipLeading(SubSeq(u, colon + 1, Len(u)), {"/"})
        hostEnd == FirstOf(rest, {"/", "?", "#"})
        host == IF hostEnd = 0 THEN rest ELSE SubSeq(rest, 1, hostEnd - 1)
        tail == IF hostEnd = 0 THEN "" ELSE SubSeq(rest, hostEnd, Len(rest))
        pathEnd == FirstOf(tail, {"?", "#"})
        path == IF pathEnd = 0 THEN tail ELSE SubSeq(tail, 1, pathEnd - 1)
    IN  IF ~validScheme THEN Null
        ELSE IF protocol \in {"http:", "https:"} /\ host = "" THEN Null
        ELSE [protocol |-> protocol, host |-> ToLower(host),
              pathname |-> IF path = "" THEN "/" ELSE path]

isValidPDFUrl(url) ==
    LET urlObj == ParseURL(url)
    IN  IF urlObj = Null THEN FALSE
        ELSE /\ urlObj.protocol = "http:" \/ urlObj.protocol = "https:"
             /\ EndsWith(ToLower(url), ".pdf") \/ Includes(ToLower(url), ".pdf")

\* the delay of batchExtractFromURLs, in ms
BatchDelay == 1000

\* results.push of a failure is left out
pushErrorDropped(results, url, message) == results

\* results.push({ url, ..., error }) of a catch block
pushError(results, url, message) ==
    Append(results, [url |-> url, status |-> "error", error |-> message,
                     documentId |-> Null])

\* results.push of a success: with the documentId on the admin page
pushSuccess(results, url, documentId) ==
    Append(results, [url |-> url, status |-> "success", error |-> "",
                     documentId |-> documentId])

(***************************************************************************)
(* Initial state: each page has constructed its engine and called          *)
(* initialize(), whose storage.init() has issued indexedDB.open; the       *)
(* database holds what earlier sessions left in it.                        *)
(***************************************************************************)
NoEvent == [e |-> "", kind |-> "none"]

NoInput == [originalText |-> "", summary |-> "", keyPhrases |-> <<>>]

\* no batch of URLs is running
NoBatch == [pc |-> "idle"]

\* no PDF document is being read
NoPdf == [pc |-> "idle"]

\* generateSummary is not running
NoGen == [pc |-> "idle"]

\* the quality analyzer and the summarizer have not been called
PureIdle ==
    /\ qaIn = NoInput
    /\ qaOut = Null
    /\ smIn = [text |-> "", weights |-> Null, level |-> "student"]
    /\ smRuns = <<>>
    /\ pdf = NoPdf

\* nothing has been recorded since the page load
NothingRecorded ==
    /\ documents = {}
    /\ summaries = {}
    /\ learningMetrics = {}

\* the admin page as it is rendered first
AdminIdle ==
    /\ batchUrls = ""
    /\ isBatchProcessing = FALSE
    /\ batchResults = <<>>
    /\ batch = NoBatch
    /\ urlLog = <<>>

\* the main page as it is rendered first
PageIdle ==
    /\ extractedText = ""
    /\ currentDocumentId = Null
    /\ summaryShown = ""
    /\ keyPhrasesShown = <<>>
    /\ isProcessing = FALSE
    /\ summaryLevel = "student"
    /\ currentStep = ""
    /\ gen = NoGen
    /\ analyses = <<>>

\* no page is open: there is no engine
EnginesAbsent ==
    /\ phase = [e \in Engines |-> "absent"]
    /\ seen = [e \in Engines |-> Null]
    /\ isLearning = [e \in Engines |-> FALSE]
    /\ timerSetAt = [e \in Engines |-> 0]
    /\ initialPending = [e \in Engines |-> FALSE]
    /\ cyc = [e \in Engines |-> <<>>]
    /\ ev = NoEvent
    /\ nStarted = 0
    /\ nFaults = 0

InitWith(open) ==
    /\ now = 1
    /\ weightsStore \in InitStores
    /\ lastPut = IF weightsStore = {} THEN Null ELSE PriorRecord.id
    /\ docCount \in InitDocCounts
    /\ phase = [e \in Engines |-> IF e \in open THEN "opening" ELSE "absent"]
    /\ seen = [e \in Engines |-> Null]
    /\ isLearning = [e \in Engines |-> FALSE]
    /\ timerSetAt = [e \in Engines |-> 0]
    /\ initialPending = [e \in Engines |-> FALSE]
    /\ cyc = [e \in Engines |-> <<>>]
    /\ ev = NoEvent
    /\ nStarted = 0
    /\ nFaults = 0
    /\ PureIdle
    /\ NothingRecorded
    /\ AdminIdle
    /\ PageIdle

\* the admin page is open
Init == InitWith({"admin"})

\* the main page and the admin page are open
InitBoth == InitWith(Engines)

(***************************************************************************)
(* The clock and the documents store                                       *)
(***************************************************************************)
storeVars == <<weightsStore, lastPut>>
initVars == <<phase, seen, timerSetAt, initialPending>>
cycleVars == <<isLearning, cyc, nStarted>>

Tick ==
    /\ now < MaxClock
    /\ now' = now + 1
    /\ ev' = [e |-> "", kind |-> "tick"]
    /\ UNCHANGED <<storeVars, docCount, documents, initVars, cycleVars, nFaults, nonEngineVars>>

\* The ids generateId can return at clock value t for a new document.  Ids
\* of documents are only compared for equality, so the least suffix that
\* gives an id not in the store stands for every suffix that does.
NewDocumentIds(t) ==
    LET fresh == {r \in RandVals : generateId(t, r) \notin documents}
    IN  {generateId(t, r) : r \in {x \in fresh : \A y \in fresh : x <= y}}

\* storeDocument: store.add(document) adds one record to 'documents' (res =
\* "ok"), throws ("throw"), or its request fails after the call has returned
\* ("lost"), which the code does not observe
storeDocument(id, res) ==
    /\ documents' = IF res = "ok" THEN documents \cup {id} ELSE documents
    /\ docCount' = IF res = "ok" THEN docCount + 1 ELSE docCount

\* a call of recordDocument by the page of engine e that stores its record
RecordDocument(e) ==
    /\ phase[e] = "ready"
    /\ \A n \in InitDocCounts : docCount # n + MaxNewDocs
    /\ \E id \in NewDocumentIds(now) : storeDocument(id, "ok")
    /\ ev' = [e |-> e, kind |-> "document"]
    /\ UNCHANGED <<now, storeVars, initVars, cycleVars, nFaults, nonEngineVars>>

(***************************************************************************)
(* initialize()                                                            *)
(***************************************************************************)
\* request.onsuccess of open: db is set, getCurrentWeights() issues its cursor
InitOpened(e) ==
    /\ phase[e] = "opening"
    /\ phase' = [phase EXCEPT ![e] = "reading"]
    /\ seen' = [seen EXCEPT ![e] = GetCurrent(weightsStore)]
    /\ ev' = [e |-> e, kind |-> "opened"]
    /\ UNCHANGED <<now, storeVars, docCount, documents, timerSetAt, initialPending,
                   cycleVars, nFaults, nonEngineVars>>

\* request.onerror of open, or of the cursor: initialize() rejects, the page
\* logs the failure and never gets an engine
InitFailed(e) ==
    /\ phase[e] \in {"opening", "reading"}
    /\ nFaults < MaxFaults
    /\ nFaults' = nFaults + 1
    /\ phase' = [phase EXCEPT ![e] = "failed"]
    /\ seen' = [seen EXCEPT ![e] = Null]
    /\ ev' = [e |-> e, kind |-> "init-failed"]
    /\ UNCHANGED <<now, storeVars, docCount, documents, timerSetAt, initialPending,
                   cycleVars, nonEngineVars>>

\* startBackgroundLearning: setInterval and setTimeout are armed
startBackgroundLearning(e) ==
    /\ timerSetAt' = [timerSetAt EXCEPT ![e] = now]
    /\ initialPending' = [initialPending EXCEPT ![e] = TRUE]

\* the cursor of getCurrentWeights() has answered: default weights are
\* written when there is no record, then the timers are armed.  The put can
\* throw (initialize() rejects), or its request can fail later, which the
\* code does not observe.
InitWeightsRead(e) ==
    /\ phase[e] = "reading"
    /\ seen' = [seen EXCEPT ![e] = Null]
    /\ IF seen[e] = Null
       THEN \E r \in FreshRand(now), res \in {"ok", "throw", "lost"} :
              LET rec == defaultWeights(generateId(now, r), now)
              IN  /\ res # "ok" => nFaults < MaxFaults
                  /\ nFaults' = IF res = "ok" THEN nFaults ELSE nFaults + 1
                  /\ weightsStore' = IF res = "ok" THEN Put(weightsStore, rec)
                                     ELSE weightsStore
                  /\ lastPut' = IF res = "ok" THEN rec.id ELSE lastPut
                  /\ IF res = "throw"
                     THEN /\ phase' = [phase EXCEPT ![e] = "failed"]
                          /\ ev' = [e |-> e, kind |-> "init-failed"]
                          /\ UNCHANGED <<timerSetAt, initialPending>>
                     ELSE /\ phase' = [phase EXCEPT ![e] = "ready"]
                          /\ ev' = [e |-> e, kind |-> IF res = "ok" THEN "defaults"
                                                      ELSE "defaults-lost"]
                          /\ startBackgroundLearning(e)
       ELSE /\ UNCHANGED <<storeVars, nFaults>>
            /\ phase' = [phase EXCEPT ![e] = "ready"]
            /\ ev' = [e |-> e, kind |-> "ready"]
            /\ startBackgroundLearning(e)
    /\ UNCHANGED <<now, docCount, documents, cycleVars, nonEngineVars>>

(***************************************************************************)
(* The learning cycle                                                      *)
(***************************************************************************)
BusyNever(e) == FALSE

\* runLearningCycle: `if (this.isLearning) return`
Busy(e) == isLearning[e]

InsufficientNever(n) == FALSE

\* runLearningCycle: `recentDocuments.length < 5`
Insufficient(n) == n < MinDocuments

finallyKeep(e) == isLearning

\* runLearningCycle: `finally { this.isLearning = false }`
finallyClear(e) == [isLearning EXCEPT ![e] = FALSE]

\* a trigger may start a cycle while fewer than MaxCycles have been started
\* and an id is left at this clock value for the record the cycle may write;
\* a trigger that finds its engine busy is always possible
MayTrigger(e) == (nStarted < MaxCycles /\ FreshRand(now) # {}) \/ isLearning[e]

\* runLearningCycle up to its first await: the flag is tested and set, and
\* getRecentDocuments(20) opens its cursor on the documents present now
runLearningCycle(e) ==
    IF Busy(e)
    THEN /\ ev' = [e |-> e, kind |-> "noop"]
         /\ UNCHANGED cycleVars
    ELSE /\ isLearning' = [isLearning EXCEPT ![e] = TRUE]
         /\ cyc' = [cyc EXCEPT ![e] = Append(@,
                       [pc |-> "docs",
                        ndocs |-> RecentCount(docCount, LookbackLimit),
                        cur |-> Null])]
         /\ nStarted' = nStarted + 1
         /\ ev' = [e |-> e, kind |-> "started"]

\* the setInterval callback: `if (!this.isLearning) this.runLearningCycle()`
IntervalTick(e) ==
    /\ phase[e] = "ready"
    /\ now > timerSetAt[e]
    /\ MayTrigger(e)
    /\ IF ~isLearning[e]
       THEN runLearningCycle(e)
       ELSE /\ ev' = [e |-> e, kind |-> "skipped"]
            /\ UNCHANGED cycleVars
    /\ UNCHANGED <<now, storeVars, docCount, documents, initVars, nFaults, nonEngineVars>>

\* the setTimeout callback, once
InitialRun(e) ==
    /\ phase[e] = "ready"
    /\ initialPending[e]
    /\ now > timerSetAt[e]
    /\ MayTrigger(e)
    /\ initialPending' = [initialPending EXCEPT ![e] = FALSE]
    /\ runLearningCycle(e)
    /\ UNCHANGED <<now, storeVars, docCount, documents, phase, seen, timerSetAt,
                   nFaults, nonEngineVars>>

\* runManualLearningCycle: only the admin page calls it (triggerLearningCycle),
\* once initAdmin has stored the initialized engine
runManualLearningCycle(e) ==
    /\ e = "admin"
    /\ phase[e] = "ready"
    /\ MayTrigger(e)
    /\ runLearningCycle(e)
    /\ UNCHANGED <<now, storeVars, docCount, documents, initVars, nFaults, nonEngineVars>>

\* invocation i of engine e leaves runLearningCycle through its finally block
Finish(e, i, kind) ==
    /\ cyc' = [cyc EXCEPT ![e] = RemoveAt(@, i)]
    /\ isLearning' = finallyClear(e)
    /\ ev' = [e |-> e, kind |-> kind]
    /\ UNCHANGED nStarted

\* getRecentDocuments resolves: too few documents end the cycle, otherwise
\* analyzeAndAdjustWeights issues getCurrentWeights()
DocsResolved(e, i) ==
    /\ cyc[e][i].pc = "docs"
    /\ IF Insufficient(cyc[e][i].ndocs)
       THEN Finish(e, i, "insufficient")
       ELSE /\ cyc' = [cyc EXCEPT ![e][i] =
                          [pc |-> "weights", ndocs |-> @.ndocs,
                           cur |-> GetCurrent(weightsStore)]]
            /\ ev' = [e |-> e, kind |-> "fetched"]
            /\ UNCHANGED <<isLearning, nStarted>>
    /\ UNCHANGED <<now, storeVars, docCount, documents, initVars, nFaults, nonEngineVars>>

\* getRecentDocuments or getCurrentWeights rejects: catch logs the error
ReadRejected(e, i) ==
    /\ cyc[e][i].pc \in {"docs", "weights"}
    /\ nFaults < MaxFaults
    /\ nFaults' = nFaults + 1
    /\ Finish(e, i, "error")
    /\ UNCHANGED <<now, storeVars, docCount, documents, initVars, nonEngineVars>>

\* getCurrentWeights resolves: analyzeAndAdjustWeights returns on null,
\* otherwise it builds the new record and calls updateWeights.  The put
\* can throw, or its request can fail later, which the code does not observe.
WeightsResolved(e, i) ==
    /\ cyc[e][i].pc = "weights"
    /\ IF cyc[e][i].cur = Null
       THEN /\ Finish(e, i, "no-weights")
            /\ UNCHANGED <<storeVars, nFaults>>
       ELSE \E r \in FreshRand(now), draws \in DrawVectors,
               res \in {"ok", "throw", "lost"} :
              \E rec \in {newWeights(cyc[e][i].cur, generateId(now, r), draws,
                                     cyc[e][i].ndocs, now)} :
                  /\ res # "ok" => nFaults < MaxFaults
                  /\ nFaults' = IF res = "ok" THEN nFaults ELSE nFaults + 1
                  /\ Finish(e, i, CASE res = "ok" -> "completed"
                                    [] res = "throw" -> "error"
                                    [] OTHER -> "completed-lost")
                  /\ weightsStore' = IF res = "ok" THEN Put(weightsStore, rec)
                                     ELSE weightsStore
                  /\ lastPut' = IF res = "ok" THEN rec.id ELSE lastPut
    /\ UNCHANGED <<now, docCount, documents, initVars, nonEngineVars>>

Next ==
    \/ Tick
    \/ \E e \in Engines : RecordDocument(e)
    \/ \E e \in Engines : InitOpened(e)
    \/ \E e \in Engines : InitFailed(e)
    \/ \E e \in Engines : InitWeightsRead(e)
    \/ \E e \in Engines : IntervalTick(e)
    \/ \E e \in Engines : InitialRun(e)
    \/ \E e \in Engines : runManualLearningCycle(e)
    \/ \E e \in Engines : \E i \in 1..Len(cyc[e]) : DocsResolved(e, i)
    \/ \E e \in Engines : \E i \in 1..Len(cyc[e]) : ReadRejected(e, i)
    \/ \E e \in Engines : \E i \in 1..Len(cyc[e]) : WeightsResolved(e, i)

Spec == Init /\ [][Next]_vars

\* a storage call of a cycle of engine e completes: its promise resolves or
\* rejects
StorageCompletes(e) ==
    \E i \in 1..Len(cyc[e]) :
        DocsResolved(e, i) \/ ReadRejected(e, i) \/ WeightsResolved(e, i)

\* every storage call that a cycle awaits completes
SpecLive == Spec /\ \A e \in Engines : WF_vars(StorageCompletes(e))

SpecBoth == InitBoth /\ [][Next]_vars

(***************************************************************************)
(* The quality analyzer applied to sample texts                            *)
(***************************************************************************)
TwoGoodSentences ==
    "Thus ant bee cat dog eel fox gnu hen first. Third kit lob owl pig rat yak zoo emu second."

OneGoodSentence == "Ant bee cat dog eel fox gnu hen jay kit."

QASummaries ==
    {"", "   ", "?!", "Unable to generate summary.", "cat dog. cat dog. cat dog.",
     OneGoodSentence, TwoGoodSentences}

\* an original of 100 characters
HundredChars ==
    "The cat sat. The dog ran.The cat sat. The dog ran.The cat sat. The dog ran.The cat sat. The dog ran."

QAOriginals ==
    {"", "12 34 a an.", "The cat sat. The dog ran.", "Ten chars.",
     "The cat sat. The dog ran. End.", HundredChars,
     OneGoodSentence \o " " \o OneGoodSentence \o " " \o TwoGoodSentences,
     TwoGoodSentences \o " " \o TwoGoodSentences \o " " \o TwoGoodSentences
         \o " " \o TwoGoodSentences}

QAKeyPhrases == {<<>>, <<"ant">>, <<"Ant", "zebra">>, <<"summary", "cat", "dog">>}

InitQA ==
    /\ qaIn \in [originalText : QAOriginals, summary : QASummaries,
                 keyPhrases : QAKeyPhrases]
    /\ qaOut = Null
    /\ smIn = [text |-> "", weights |-> Null, level |-> "student"]
    /\ smRuns = <<>>
    /\ pdf = NoPdf
    /\ now = 1
    /\ weightsStore = {}
    /\ lastPut = Null
    /\ docCount = 0
    /\ EnginesAbsent
    /\ NothingRecorded
    /\ AdminIdle
    /\ PageIdle

\* a call of analyzeSummaryQuality(originalText, summary, keyPhrases)
Analyze ==
    /\ qaOut = Null
    /\ qaOut' = analyzeSummaryQuality(qaIn.originalText, qaIn.summary, qaIn.keyPhrases)
    /\ UNCHANGED <<qaIn, engineVars, ev, smVars, recordVars, urlVars, pageVars>>

\* a call of detectIssues(metrics, summary) on the metrics of the analysis
Detect ==
    /\ qaOut # Null
    /\ "detectedIssues" \notin DOMAIN qaOut
    /\ qaOut' = [coherenceScore |-> qaOut.coherenceScore,
                 relevanceScore |-> qaOut.relevanceScore,
                 compressionRatio |-> qaOut.compressionRatio,
                 keywordCoverage |-> qaOut.keywordCoverage,
                 sentenceQuality |-> qaOut.sentenceQuality,
                 overallScore |-> qaOut.overallScore,
                 detectedIssues |-> detectIssues(qaOut, qaIn.summary)]
    /\ UNCHANGED <<qaIn, engineVars, ev, smVars, recordVars, urlVars, pageVars>>

NextQA == Analyze \/ Detect

SpecQA == InitQA /\ [][NextQA]_vars

(***************************************************************************)
(* The Summarizer applied to sample texts                                  *)
(***************************************************************************)
MaxRuns == 2

\* the example of the specification: the second sentence is too short
ExampleText ==
    "This is the first important sentence about research. A short one. Finally, in conclusion, the study reveals significant findings."

\* every fragment has at most 15 characters
ShortFragments == "Short one. Tiny! No?   "

\* five sentences; the second and the fifth outscore the first
FiveSentences ==
    "Plain opening words here. The main research shows results! Nothing special in the middle. Another middle filler sentence. Why and how does education matter? Education and research."

\* the same sentence twice
TwiceTheSame == "Research shows education matters. Research shows education matters."

\* six sentences of which the second, third, fifth and sixth score the same
TiedSentences ==
    "Birds fly over green hills. Why do cats nap all day? Why is rain wet and cold? Dogs bark at the red moon. Why are lakes deep blue? Why can fish swim fast?"

\* twenty-seven sentences with the same three key words: the number of
\* sentences to select is above its least value at either level
ManySentences ==
    "Note aa stays here. Note ab stays here. Note ac stays here. Note ad stays here. Note ae stays here. Note af stays here. Note ag stays here. Note ah stays here. Note ai stays here. Note aj stays here. Note ak stays here. Note al stays here. Note am stays here. Note an stays here. Note ao stays here. Note ap stays here. Note aq stays here. Note ar stays here. Note as stays here. Note at stays here. Note au stays here. Note av stays here. Note aw stays here. Note ax stays here. Note ay stays here. Note az stays here. Note ba stays here."

SumTexts == {"", ShortFragments, ExampleText, FiveSentences, TwiceTheSame}

\* texts with more salient sentences than are selected
SelectionTexts == {TiedSentences, ManySentences}

\* what getCurrentWeights can hand to the Summarizer
SumWeights == {Null, defaultWeights(generateId(1, 0), 1), PriorRecord}

Levels == {"student", "professor"}

InitSum ==
    /\ smIn \in [text : SumTexts, weights : SumWeights, level : Levels]
    /\ smRuns = <<>>
    /\ pdf = NoPdf
    /\ qaIn = NoInput
    /\ qaOut = Null
    /\ now = 1
    /\ weightsStore = {}
    /\ lastPut = Null
    /\ docCount = 0
    /\ EnginesAbsent
    /\ NothingRecorded
    /\ AdminIdle
    /\ PageIdle

\* a call of generateIntelligentSummaryWithLearning(text, weights) at the
\* summary level of the page
Summarize ==
    /\ Len(smRuns) < MaxRuns
    /\ smRuns' = Append(smRuns,
           [at |-> now,
            result |-> generateIntelligentSummaryWithLearning(
                           smIn.text, smIn.weights, smIn.level)])
    /\ UNCHANGED <<smIn, pdf, qaVars, engineVars, ev, recordVars, urlVars, pageVars>>

\* time passes between two calls
TickSum ==
    /\ now < MaxClock
    /\ now' = now + 1
    /\ UNCHANGED <<storeVars, docCount, initVars, cycleVars, nFaults, ev,
                   qaVars, smVars, recordVars, urlVars, pageVars>>

NextSum == Summarize \/ TickSum

SpecSum == InitSum /\ [][NextSum]_vars

\* the Summarizer on the texts of SelectionTexts
InitSelection ==
    /\ smIn \in [text : SelectionTexts, weights : SumWeights, level : Levels]
    /\ smRuns = <<>>
    /\ pdf = NoPdf
    /\ qaIn = NoInput
    /\ qaOut = Null
    /\ now = 1
    /\ weightsStore = {}
    /\ lastPut = Null
    /\ docCount = 0
    /\ EnginesAbsent
    /\ NothingRecorded
    /\ AdminIdle
    /\ PageIdle

SpecSelection == InitSelection /\ [][NextSum]_vars

(***************************************************************************)
(* Batch URL processing: handleBatchURLProcessing of the admin page and    *)
(* batchExtractFromURLs of the extractor.  A step runs from one await of   *)
(* the loop to the next.                                                   *)
(***************************************************************************)
MaxBatchClock == 2001

\* the clock advances by half a delay or by a whole delay
ElapseSteps == {BatchDelay \div 2, BatchDelay}

\* the texts of the URL list; the lines are separated by \n
UrlLists ==
    {"https://host.org/a/paper.pdf\n\n  ftp://host.org/b.pdf  \nhttp://host.org/C.PDF",
     "paper.pdf\nhttps://host.org/page.html\nhttps://host.org/view?file=a.pdf",
     "https://my.pdf.host.org/index.html\nhttps://host.org/d.pdf#top"}

\* the admin page has initialized its engine, and the list has been typed
InitUrl ==
    /\ now = 1
    /\ weightsStore = {defaultWeights(generateId(1, 0), 1)}
    /\ lastPut = generateId(1, 0)
    /\ docCount \in InitDocCounts
    /\ phase = [e \in Engines |-> IF e = "admin" THEN "ready" ELSE "absent"]
    /\ seen = [e \in Engines |-> Null]
    /\ isLearning = [e \in Engines |-> FALSE]
    /\ timerSetAt = [e \in Engines |-> IF e = "admin" THEN 1 ELSE 0]
    /\ initialPending = [e \in Engines |-> e = "admin"]
    /\ cyc = [e \in Engines |-> <<>>]
    /\ ev = NoEvent
    /\ nStarted = 0
    /\ nFaults = 0
    /\ PureIdle
    /\ NothingRecorded
    /\ batchUrls \in UrlLists
    /\ isBatchProcessing = FALSE
    /\ batchResults = <<>>
    /\ batch = NoBatch
    /\ urlLog = <<>>
    /\ PageIdle

\* what a step of a batch leaves alone
batchFrame ==
    <<storeVars, initVars, cycleVars, ev, qaVars, smVars, summaries,
      learningMetrics, batchUrls, pageVars>>

Elapse ==
    \E d \in ElapseSteps :
        /\ now + d <= MaxBatchClock
        /\ now' = now + d
        /\ UNCHANGED <<docCount, documents, nFaults, isBatchProcessing,
                       batchResults, batch, urlLog, batchFrame>>

\* handleBatchURLProcessing up to its loop; the button is disabled while
\* isBatchProcessing
StartAdminBatch ==
    /\ batch.pc = "idle"
    /\ phase["admin"] = "ready"
    /\ Trim(batchUrls) # ""
    /\ ~isBatchProcessing
    /\ isBatchProcessing' = TRUE
    /\ batchResults' = <<>>
    /\ batch' = [pc |-> "next", kind |-> "admin",
                 urls |-> MapSeq(FilterSeq(Split(batchUrls, "\n"), NonBlank), Trim),
                 i |-> 1, results |-> <<>>, timer |-> 0]
    /\ UNCHANGED <<now, docCount, documents, nFaults, urlLog, batchFrame>>

\* batchExtractFromURLs(urls) up to its loop, on the URLs of the list
StartExtractorBatch ==
    /\ batch.pc = "idle"
    /\ batch' = [pc |-> "next", kind |-> "extractor",
                 urls |-> MapSeq(FilterSeq(Split(batchUrls, "\n"), NonBlank), Trim),
                 i |-> 1, results |-> <<>>, timer |-> 0]
    /\ UNCHANGED <<now, docCount, documents, nFaults, isBatchProcessing,
                   batchResults, urlLog, batchFrame>>

\* the head of the loop.  After the last URL the admin page shows the
\* results and awaits getCurrentWeights, and the extractor returns them.
\* Otherwise extractFromURL validates the URL: it throws for an invalid one,
\* which the catch block of the loop turns into a result, and issues the
\* fetch for a valid one.
BatchItem ==
    /\ batch.pc = "next"
    /\ IF batch.i > Len(batch.urls)
       THEN /\ batch' = [batch EXCEPT !.pc = IF batch.kind = "admin" THEN "stats"
                                               ELSE "done"]
            /\ batchResults' = IF batch.kind = "admin" THEN batch.results
                               ELSE batchResults
            /\ UNCHANGED urlLog
       ELSE LET url == batch.urls[batch.i]
            IN  IF isValidPDFUrl(url)
                THEN /\ batch' = [batch EXCEPT !.pc = "fetching"]
                     /\ urlLog' = Append(urlLog,
                            [url |-> url, start |-> now, end |-> 0,
                             fetched |-> TRUE, outcome |-> "pending"])
                     /\ UNCHANGED batchResults
                ELSE /\ batch' = [batch EXCEPT
                            !.results = pushError(@, url, "Invalid PDF URL"),
                            !.i = @ + 1]
                     /\ urlLog' = Append(urlLog,
                            [url |-> url, start |-> now, end |-> now,
                             fetched |-> FALSE, outcome |-> "invalid"])
                     /\ UNCHANGED batchResults
    /\ UNCHANGED <<now, docCount, documents, nFaults, isBatchProcessing, batchFrame>>

\* the item that is being fetched, finished at the current time
Finished(outcome) ==
    [urlLog EXCEPT ![Len(urlLog)] = [@ EXCEPT !.end = now, !.outcome = outcome]]

\* extractFromURL of the admin page's loop settles: with a text of more than
\* 100 characters, which recordDocument stores, with a shorter text, or with
\* an error of the fetch or of the PDF reader
AdminFetchDone ==
    /\ batch.pc = "fetching" /\ batch.kind = "admin"
    /\ LET url == batch.urls[batch.i]
       IN  \/ \E id \in NewDocumentIds(now), res \in {"ok", "throw", "lost"} :
                /\ res # "ok" => nFaults < MaxFaults
                /\ nFaults' = IF res = "ok" THEN nFaults ELSE nFaults + 1
                /\ storeDocument(id, res)
                /\ batch' = [batch EXCEPT
                       !.results = IF res = "throw"
                                   THEN pushError(@, url, "storage")
                                   ELSE pushSuccess(@, url, id),
                       !.i = @ + 1, !.pc = "next"]
                /\ urlLog' = Finished(IF res = "throw" THEN "not-recorded" ELSE "text")
           \/ /\ batch' = [batch EXCEPT
                     !.results = pushError(@, url, "Insufficient text extracted"),
                     !.i = @ + 1, !.pc = "next"]
              /\ urlLog' = Finished("short")
              /\ UNCHANGED <<docCount, documents, nFaults>>
           \/ /\ batch' = [batch EXCEPT
                     !.results = pushError(@, url, "Failed to fetch PDF"),
                     !.i = @ + 1, !.pc = "next"]
              /\ urlLog' = Finished("failed")
              /\ UNCHANGED <<docCount, documents, nFaults>>
    /\ UNCHANGED <<now, isBatchProcessing, batchResults, batchFrame>>

\* extractFromURL of the extractor's loop settles: after a text the loop
\* awaits its timer, after an error it goes on at once
ExtractorFetchDone ==
    /\ batch.pc = "fetching" /\ batch.kind = "extractor"
    /\ LET url == batch.urls[batch.i]
       IN  \/ /\ batch' = [batch EXCEPT
                     !.results = pushSuccess(@, url, Null),
                     !.pc = "delay", !.timer = now + BatchDelay]
              /\ urlLog' = Finished("text")
           \/ /\ batch' = [batch EXCEPT
                     !.results = pushError(@, url, "Failed to fetch PDF"),
                     !.i = @ + 1, !.pc = "next"]
              /\ urlLog' = Finished("failed")
    /\ UNCHANGED <<now, docCount, documents, nFaults, isBatchProcessing,
                   batchResults, batchFrame>>

\* the timer of `await new Promise(resolve => setTimeout(resolve, 1000))`
DelayDone ==
    /\ batch.pc = "delay"
    /\ now >= batch.timer
    /\ batch' = [batch EXCEPT !.i = @ + 1, !.pc = "next"]
    /\ UNCHANGED <<now, docCount, documents, nFaults, isBatchProcessing,
                   batchResults, urlLog, batchFrame>>

\* getCurrentWeights of the admin page settles, the statistics are shown or
\* the error is logged; finally isBatchProcessing is cleared
AdminStatsDone ==
    /\ batch.pc = "stats"
    /\ batch' = [batch EXCEPT !.pc = "done"]
    /\ isBatchProcessing' = FALSE
    /\ UNCHANGED <<now, docCount, documents, nFaults, batchResults, urlLog,
                   batchFrame>>

NextUrl ==
    \/ Elapse
    \/ StartAdminBatch
    \/ StartExtractorBatch
    \/ BatchItem
    \/ AdminFetchDone
    \/ ExtractorFetchDone
    \/ DelayDone
    \/ AdminStatsDone

SpecUrl == InitUrl /\ [][NextUrl]_vars

(***************************************************************************)
(* Reading the pages of a PDF document (url-extractor.ts, main page)       *)
(***************************************************************************)
MaxPages == 3

\* a page whose getPage or getTextContent rejects
FailedPage == [ok |-> FALSE]

\* a text item of a page
Item(str) == [str |-> str]

\* an item without a string
Marked == [marked |-> TRUE]

FirstPage == [ok |-> TRUE, items |-> <<Item("First"), Item("page.")>>]

MixedPage ==
    [ok |-> TRUE, items |-> <<Item(""), Item(" caf# two"), Marked, Item("(b)  ")>>]

\* the pages of the sample documents
PdfPages == {FailedPage, FirstPage, MixedPage}

RECURSIVE SeqsUpTo(_, _)
\* the sequences of at most n elements of S
SeqsUpTo(S, n) ==
    IF n = 0 THEN {<<>>}
    ELSE The({prev \cup {Append(q, x) : q \in {p \in prev : Len(p) = n - 1}, x \in S} :
              prev \in {SeqsUpTo(S, n - 1)}})

\* a file that PDF.js cannot open
Unreadable == [opens |-> FALSE]

\* the documents handed to getDocument
PdfDocuments ==
    {Unreadable} \cup {[opens |-> TRUE, pages |-> p] : p \in SeqsUpTo(PdfPages, MaxPages)}

\* `item.str && typeof item.str === 'string'`
HasText(item) == "str" \in DOMAIN item /\ item.str # ""

StrOf(item) == item.str

\* textContent.items.filter(...).map(item => item.str).join(' ')
pageText(page) == Join(MapSeq(FilterSeq(page.items, HasText), StrOf), " ")

\* the text of a page is put before the text read so far
appendPageInFront(fullText, page) == pageText(page) \o " " \o fullText

\* `fullText += pageText + ' '`
appendPage(fullText, page) == fullText \o pageText(page) \o " "

AllowedMarks == {".", ",", "!", "?", ";", ":", "(", ")", "-", "\"", "'"}

AllowedOrNothing(c) ==
    IF IsWordChar(c) \/ c \in Whitespace \/ c \in AllowedMarks THEN c ELSE ""

\* fullText.replace(/\s+/g, ' ').replace(/[^\w\s.,!?;:()\-"']/g, '').trim()
cleanText(fullText) ==
    The({Trim(MapChars(t, AllowedOrNothing, 1, Len(t))) :
         t \in {Join(SplitRuns(fullText, Whitespace), " ")}})

InitPdf ==
    /\ pdf \in [pc : {"open"}, doc : PdfDocuments, i : {1}, fullText : {""},
                text : {""}]
    /\ qaIn = NoInput
    /\ qaOut = Null
    /\ smIn = [text |-> "", weights |-> Null, level |-> "student"]
    /\ smRuns = <<>>
    /\ now = 1
    /\ weightsStore = {}
    /\ lastPut = Null
    /\ docCount = 0
    /\ EnginesAbsent
    /\ NothingRecorded
    /\ AdminIdle
    /\ PageIdle

pdfFrame == <<smIn, smRuns, qaVars, engineVars, ev, recordVars, urlVars, pageVars>>

\* `await pdfjsLib.getDocument({ data: arrayBuffer }).promise`: a rejection
\* leaves extractTextFromArrayBuffer, and extractFromURL throws it again
getDocument ==
    /\ pdf.pc = "open"
    /\ pdf' = [pdf EXCEPT !.pc = IF pdf.doc.opens THEN "pages" ELSE "thrown"]
    /\ UNCHANGED pdfFrame

\* one round of the loop over the pages: the catch block of a page that
\* fails only logs a warning
ReadPage ==
    /\ pdf.pc = "pages"
    /\ pdf.i <= Len(pdf.doc.pages)
    /\ pdf' = [pdf EXCEPT
                  !.i = @ + 1,
                  !.fullText = IF pdf.doc.pages[pdf.i].ok
                               THEN appendPage(@, pdf.doc.pages[pdf.i]) ELSE @]
    /\ UNCHANGED pdfFrame

\* the loop has ended: the cleaned text is returned
ReturnText ==
    /\ pdf.pc = "pages"
    /\ pdf.i > Len(pdf.doc.pages)
    /\ pdf' = [pdf EXCEPT !.pc = "returned", !.text = cleanText(pdf.fullText)]
    /\ UNCHANGED pdfFrame

NextPdf == getDocument \/ ReadPage \/ ReturnText

SpecPdf == InitPdf /\ [][NextPdf]_vars

(***************************************************************************)
(* The main page (src/unnamed/part_000): text extraction, generateSummary, *)
(* and recordSummary with its quality analysis (learning-engine.ts).  A    *)
(* handler works on the state of the render in which it was created, so    *)
(* generateSummary keeps the text, the document id and the level it was    *)
(* started with.  The steps of a behaviour fall into one millisecond, in   *)
(* which ids differ by their random suffix only, so a behaviour records as *)
(* many documents and summaries as there are suffixes.                     *)
(***************************************************************************)
\* the texts an extraction can yield: one of more than 100 characters, which
\* is recorded, and one that is too short to be recorded
PageTexts == {FiveSentences, TwiceTheSame}

\* the dotless i of the product name is written i
FormatSummary(level, intelligentSummary) ==
    IF level = "professor"
    THEN "Academic Summary (Niviskar AI v2.0):\n\n" \o intelligentSummary
         \o "\n\nThis summary was generated using our self-learning AI system that continuously improves based on document analysis and quality feedback."
    ELSE "Student Summary (Niviskar AI v2.0):\n\n" \o intelligentSummary
         \o "\n\nGenerated by our adaptive AI that learns from each document to provide better summaries over time."

GeneratedStep == "Intelligent summary generated successfully!"

FailedStep == "Error: Could not generate summary. Please try again."

\* the flag is left as it is
finallyProcessingKept(flag) == flag

\* generateSummary: `finally { setIsProcessing(false) }`
finallyProcessing(flag) == FALSE

\* The ids generateId can return at clock value t when the ids used have
\* been returned before (see NewDocumentIds).  An id that was returned for a
\* record that did not reach the store is not drawn again either.
NewIds(t, used) ==
    LET fresh == {r \in RandVals : generateId(t, r) \notin used}
    IN  {generateId(t, r) : r \in {x \in fresh : \A y \in fresh : x <= y}}

\* the document ids and the summary ids the page's engine has returned
IssuedDocumentIds ==
    documents \cup ({currentDocumentId} \ {Null})
        \cup {s.documentId : s \in summaries}
        \cup {analyses[k].documentId : k \in 1..Len(analyses)}
        \cup (IF gen.pc = "idle" THEN {} ELSE {gen.documentId} \ {Null})

IssuedSummaryIds ==
    StoreIds(summaries) \cup {analyses[k].summaryId : k \in 1..Len(analyses)}
        \cup {m.summaryId : m \in learningMetrics}

\* the weights store after initialize on an empty database
PageWeights == {defaultWeights(generateId(1, 0), 1)}

\* generateIntelligentSummaryWithLearning on every input the page can hand
\* to it, evaluated once
PageSummaries ==
    [text \in PageTexts, weights \in {GetCurrent(PageWeights)}, level \in Levels |->
        generateIntelligentSummaryWithLearning(text, weights, level)]

\* the main page has initialized its engine on an empty database
InitPage ==
    /\ now = 1
    /\ weightsStore = PageWeights
    /\ lastPut = generateId(1, 0)
    /\ docCount = 0
    /\ phase = [e \in Engines |-> IF e = "main" THEN "ready" ELSE "absent"]
    /\ seen = [e \in Engines |-> Null]
    /\ isLearning = [e \in Engines |-> FALSE]
    /\ timerSetAt = [e \in Engines |-> IF e = "main" THEN 1 ELSE 0]
    /\ initialPending = [e \in Engines |-> e = "main"]
    /\ cyc = [e \in Engines |-> <<>>]
    /\ ev = NoEvent
    /\ nStarted = 0
    /\ nFaults = 0
    /\ PureIdle
    /\ NothingRecorded
    /\ AdminIdle
    /\ extractedText = ""
    /\ currentDocumentId = Null
    /\ summaryShown = ""
    /\ keyPhrasesShown = <<>>
    /\ isProcessing = FALSE
    /\ summaryLevel \in Levels
    /\ currentStep = ""
    /\ gen = NoGen
    /\ analyses = <<>>

\* what no step of the main page changes
pageFrame ==
    <<storeVars, initVars, cycleVars, qaVars, smVars, urlVars, summaryLevel>>

\* `if (learningEngine && text.length > 100)` recordDocument, whose id is
\* kept as currentDocumentId unless the call throws
RecordExtracted(text, kept) ==
    IF phase["main"] = "ready" /\ Len(text) > 100
    THEN \E id \in NewIds(now, IssuedDocumentIds), res \in {"ok", "throw", "lost"} :
            /\ res # "ok" => nFaults < MaxFaults
            /\ nFaults' = IF res = "ok" THEN nFaults ELSE nFaults + 1
            /\ storeDocument(id, res)
            /\ currentDocumentId' = IF res = "throw" THEN kept ELSE id
            /\ ev' = [e |-> "main", kind |-> CASE res = "ok" -> "document"
                                              [] res = "throw" -> "document-failed"
                                              [] OTHER -> "document-lost"]
    ELSE /\ currentDocumentId' = kept
         /\ ev' = [e |-> "main", kind |-> "not-recorded"]
         /\ UNCHANGED <<docCount, documents, nFaults>>

\* handleFileUpload and extractTextFromPDF: the page is reset, the text of
\* the file is shown and recorded, and the `finally` of extractTextFromPDF
\* clears the processing flag.  The file input is never disabled.
FileExtracted ==
    \E text \in PageTexts :
        /\ Len(text) > 100 => Cardinality(documents) < MaxNewDocs
        /\ extractedText' = text
        /\ summaryShown' = ""
        /\ keyPhrasesShown' = <<>>
        /\ RecordExtracted(text, Null)
        /\ currentStep' = IF currentDocumentId' # Null
                          THEN "Document recorded for learning!"
                          ELSE "Text extraction completed!"
        /\ isProcessing' = FALSE
        /\ UNCHANGED <<now, summaries, learningMetrics, gen, analyses, pageFrame>>

\* handleUrlExtraction: the text of the URL is shown and recorded; the page
\* is not reset, and the processing flag is not used
UrlExtracted ==
    \E text \in PageTexts :
        /\ Len(text) > 100 => Cardinality(documents) < MaxNewDocs
        /\ extractedText' = text
        /\ currentStep' = "URL extraction completed!"
        /\ RecordExtracted(text, currentDocumentId)
        /\ UNCHANGED <<now, summaries, learningMetrics, summaryShown,
                       keyPhrasesShown, isProcessing, gen, analyses, pageFrame>>

\* generateSummary up to `await learningEngine.getCurrentWeights()`; the
\* button is disabled while isProcessing
StartGenerate ==
    /\ extractedText # ""
    /\ ~isProcessing
    /\ gen.pc = "idle"
    /\ Cardinality(summaries) < MaxNewDocs
    /\ isProcessing' = TRUE
    /\ currentStep' = "Analyzing document structure..."
    /\ gen' = [pc |-> "weights", text |-> extractedText,
               documentId |-> currentDocumentId, level |-> summaryLevel,
               weights |-> GetCurrent(weightsStore)]
    /\ ev' = [e |-> "main", kind |-> "generate"]
    /\ UNCHANGED <<now, docCount, recordVars, nFaults, extractedText,
                   currentDocumentId, summaryShown, keyPhrasesShown, analyses,
                   pageFrame>>

\* getCurrentWeights rejects: the outer catch reports the error
WeightsReadFailed ==
    /\ gen.pc = "weights"
    /\ nFaults < MaxFaults
    /\ nFaults' = nFaults + 1
    /\ currentStep' = FailedStep
    /\ isProcessing' = finallyProcessing(isProcessing)
    /\ gen' = NoGen
    /\ ev' = [e |-> "main", kind |-> "weights-read-failed"]
    /\ UNCHANGED <<now, docCount, recordVars, extractedText, currentDocumentId,
                   summaryShown, keyPhrasesShown, analyses, pageFrame>>

\* getCurrentWeights resolves: the summary is generated and shown, and, if
\* the page has a document id, recordSummary stores it, starts
\* analyzeSummaryQuality without awaiting it and returns; then
\* getCurrentWeights is awaited for the statistics.  storeSummary can throw,
\* which the inner catch logs.
SummaryGenerated ==
    /\ gen.pc = "weights"
    /\ LET result == PageSummaries[gen.text, gen.weights, gen.level]
           finalSummary == FormatSummary(gen.level, result.summary)
       IN  /\ summaryShown' = finalSummary
           /\ keyPhrasesShown' = result.keyPhrases
           /\ currentStep' = GeneratedStep
           /\ IF gen.documentId = Null
              THEN /\ isProcessing' = finallyProcessing(isProcessing)
                   /\ gen' = NoGen
                   /\ ev' = [e |-> "main", kind |-> "summary-not-recorded"]
                   /\ UNCHANGED <<summaries, analyses, nFaults>>
              ELSE \E id \in NewIds(now, IssuedSummaryIds),
                      res \in {"ok", "throw", "lost"} :
                     /\ res # "ok" => nFaults < MaxFaults
                     /\ nFaults' = IF res = "ok" THEN nFaults ELSE nFaults + 1
                     /\ summaries' =
                          IF res = "ok"
                          THEN summaries \cup {[id |-> id, documentId |-> gen.documentId,
                                                summaryText |-> finalSummary]}
                          ELSE summaries
                     /\ IF res = "throw"
                        THEN /\ isProcessing' = finallyProcessing(isProcessing)
                             /\ gen' = NoGen
                             /\ ev' = [e |-> "main", kind |-> "summary-record-failed"]
                             /\ UNCHANGED analyses
                        ELSE /\ isProcessing' = isProcessing
                             /\ gen' = [gen EXCEPT !.pc = "stats"]
                             /\ analyses' = Append(analyses,
                                    [documentId |-> gen.documentId, summaryId |-> id,
                                     found |-> gen.documentId \in documents])
                             /\ ev' = [e |-> "main", kind |-> "summary-recorded"]
    /\ UNCHANGED <<now, docCount, documents, learningMetrics, extractedText,
                   currentDocumentId, pageFrame>>

\* the getCurrentWeights after recordSummary settles: the statistics are
\* shown, or the inner catch logs the error
StatsDone ==
    /\ gen.pc = "stats"
    /\ \E failed \in BOOLEAN :
          /\ failed => nFaults < MaxFaults
          /\ nFaults' = IF failed THEN nFaults + 1 ELSE nFaults
          /\ ev' = [e |-> "main", kind |-> IF failed THEN "stats-failed" ELSE "stats"]
    /\ isProcessing' = finallyProcessing(isProcessing)
    /\ gen' = NoGen
    /\ UNCHANGED <<now, docCount, recordVars, extractedText, currentDocumentId,
                   summaryShown, keyPhrasesShown, currentStep, analyses, pageFrame>>

\* getRecentDocuments(1000) of analyzeSummaryQuality settles: it returns if
\* the document is not among the records, and stores the metrics otherwise.
\* A rejected read and a throwing storeMetrics are caught and logged.
AnalysisDone(i) ==
    /\ analyses' = RemoveAt(analyses, i)
    /\ \/ /\ ~analyses[i].found
          /\ ev' = [e |-> "main", kind |-> "analysis-no-document"]
          /\ UNCHANGED <<learningMetrics, nFaults>>
       \/ /\ analyses[i].found
          /\ \E id \in NewIds(now, StoreIds(learningMetrics)),
                res \in {"ok", "throw", "lost"} :
               /\ res # "ok" => nFaults < MaxFaults
               /\ nFaults' = IF res = "ok" THEN nFaults ELSE nFaults + 1
               /\ learningMetrics' =
                    IF res = "ok"
                    THEN learningMetrics \cup
                            {[id |-> id, documentId |-> analyses[i].documentId,
                              summaryId |-> analyses[i].summaryId]}
                    ELSE learningMetrics
               /\ ev' = [e |-> "main", kind |-> IF res = "throw" THEN "analysis-failed"
                                                ELSE "analysis"]
       \/ /\ nFaults < MaxFaults
          /\ nFaults' = nFaults + 1
          /\ ev' = [e |-> "main", kind |-> "analysis-failed"]
          /\ UNCHANGED learningMetrics
    /\ UNCHANGED <<now, docCount, documents, summaries, extractedText,
                   currentDocumentId, summaryShown, keyPhrasesShown, isProcessing,
                   currentStep, gen, pageFrame>>

NextPage ==
    \/ FileExtracted
    \/ UrlExtracted
    \/ StartGenerate
    \/ WeightsReadFailed
    \/ SummaryGenerated
    \/ StatsDone
    \/ \E i \in 1..Len(analyses) : AnalysisDone(i)

SpecPage == InitPage /\ [][NextPage]_vars

(***************************************************************************)
(* Properties of the learning cycle and of the weights store               *)
(***************************************************************************)
\* the steps that are a trigger of engine e: a timer callback or a manual call
TriggerKinds == {"noop", "skipped", "started"}

\* major, minor and patch of a version string
VersionOf(rec) ==
    LET parts == Split(rec.version, ".")
    IN  [major |-> parts[1], minor |-> parts[2], patch |-> ParseInt(parts[3])]

\* C1: in one engine at most one invocation of runLearningCycle is past the
\* test of isLearning at any time, and isLearning is true exactly while one is.
C1_AtMostOneCycle ==
    \A e \in Engines : Len(cyc[e]) <= 1 /\ (isLearning[e] <=> Len(cyc[e]) = 1)

\* an interval tick has arrived while the cycle started by another trigger
\* was waiting for its documents
C1_Witness ==
    \E e \in Engines :
        /\ ev = [e |-> e, kind |-> "skipped"]
        /\ Len(cyc[e]) = 1 /\ cyc[e][1].pc = "docs"

\* C2: a trigger of an engine whose cycle is running changes nothing: no
\* invocation is added (no documents are fetched), no weights record is
\* written, the flag stays set, and the one running cycle is left as it was.
C2_TriggerWhileRunningIsNoop ==
    [][\A e \in Engines :
          (ev'.e = e /\ ev'.kind \in TriggerKinds /\ isLearning[e])
          => /\ ev'.kind # "started"
             /\ Len(cyc[e]) = 1
             /\ UNCHANGED <<weightsStore, lastPut, docCount, isLearning, cyc, nStarted>>]_vars

\* a manual trigger has arrived while a cycle that fetched at least 5
\* documents was waiting for the current weights
C2_Witness ==
    /\ ev = [e |-> "admin", kind |-> "noop"]
    /\ isLearning["admin"]
    /\ Len(cyc["admin"]) = 1
    /\ cyc["admin"][1].pc = "weights" /\ cyc["admin"][1].ndocs >= 5

\* C3: a cycle that writes its record leaves a current record with the major
\* and minor parts of the previously current one and a patch one greater.
C3_PatchIncreases ==
    [][\A e \in Engines :
          (ev'.e = e /\ ev'.kind = "completed" /\ weightsStore' # weightsStore)
          => LET old == VersionOf(GetCurrent(weightsStore))
                 new == VersionOf(GetCurrent(weightsStore'))
             IN  /\ new.major = old.major
                 /\ new.minor = old.minor
                 /\ new.patch = old.patch + 1]_vars

\* C4: when getRecentDocuments answers a cycle with fewer than 5 documents,
\* the cycle ends, the flag is cleared, no weights record is written and no
\* error is reported.
C4_InsufficientDataAborts ==
    [][\A e \in Engines :
          (/\ Len(cyc[e]) = 1 /\ cyc[e][1].pc = "docs" /\ cyc[e][1].ndocs < 5
           /\ ev'.e = e /\ ev'.kind \notin {"noop", "skipped", "document", "error"})
          => /\ ev'.kind = "insufficient"
             /\ cyc'[e] = <<>>
             /\ ~isLearning'[e]
             /\ UNCHANGED <<weightsStore, lastPut, nFaults>>]_vars

\* a cycle has ended for lack of documents while a weights record exists
C4_Witness ==
    /\ ev.kind = "insufficient"
    /\ docCount < 5
    /\ weightsStore # {}
    /\ ~isLearning[ev.e]

\* C5: every weights record in the store has each weight at or above its floor.
C5_WeightsAboveFloor ==
    \A rec \in weightsStore :
        /\ rec.weights.positionWeight >= 100000
        /\ rec.weights.lengthWeight >= 100000
        /\ rec.weights.importancePhraseWeight >= 100000
        /\ rec.weights.keywordWeight >= 50000
        /\ rec.weights.academicTermWeight >= 50000
        /\ rec.weights.questionWeight >= 50000

\* an adjustment has been written in which the floor cut the new value off
C5_Witness ==
    \E rec \in weightsStore, old \in weightsStore :
        /\ rec.version = "1.0.200" /\ old.version = "1.0.199"
        /\ rec.weights.positionWeight = 100000
        /\ old.weights.positionWeight - 2500 < 100000

\* C6: getCurrentWeights returns the record written last.
C6_CurrentIsLastWritten ==
    weightsStore # {} => GetCurrent(weightsStore).id = lastPut

\* C7: a step that changes the weights store adds one record under an id
\* that was not in the store, and leaves every earlier record as it was.
C7_AppendOnly ==
    [][weightsStore' # weightsStore
       => \E rec \in weightsStore' :
            /\ rec.id \notin StoreIds(weightsStore)
            /\ weightsStore' = weightsStore \cup {rec}]_vars

\* the default record and the record of an adjustment cycle are both stored
C7_Witness ==
    \E a \in weightsStore, b \in weightsStore :
        /\ a.version = "1.0.0" /\ b.version = "1.0.1"
        /\ a.id # b.id
        /\ ev.kind = "completed"

\* C8: a storage fault that hits a cycle of an engine ends the cycle with the
\* flag cleared and without a change of the store, so the record that was
\* current stays current; the fault is logged or goes unnoticed, it is not
\* raised.
C8_FaultLeavesWeights ==
    [][\A e \in Engines :
          (nFaults' > nFaults /\ cyc'[e] # cyc[e])
          => /\ cyc'[e] = <<>>
             /\ ~isLearning'[e]
             /\ ev'.kind \in {"error", "completed-lost"}
             /\ UNCHANGED <<weightsStore, lastPut>>
             /\ GetCurrent(weightsStore') = GetCurrent(weightsStore)]_vars

\* the put of a cycle has thrown, and an earlier record is still in the store
C8_Witness ==
    /\ ev = [e |-> "admin", kind |-> "error"]
    /\ nFaults = 1
    /\ ~isLearning["admin"]
    /\ weightsStore # {}
    /\ GetCurrent(weightsStore).id = lastPut

\* C22: every cycle that has set isLearning clears it again, whichever way
\* it ends, if every storage call it awaits completes.
C22_CycleReturnsToIdle ==
    \A e \in Engines : isLearning[e] ~> ~isLearning[e]

\* a cycle that found no current weights record has ended with the flag
\* cleared
C22_Witness ==
    /\ ev = [e |-> "admin", kind |-> "no-weights"]
    /\ weightsStore = {}
    /\ ~isLearning["admin"]
    /\ cyc["admin"] = <<>>

\* C23: the record a completed cycle writes counts the documents processed
\* as the count of the record the cycle read plus the 5 to 20 documents it
\* fetched, and never fewer than the record written before it.
C23_DocumentsProcessedGrows ==
    [][ev'.kind = "completed" =>
         \E rec \in weightsStore' \ weightsStore, i \in 1..Len(cyc[ev'.e]) :
            /\ rec.id = lastPut'
            /\ cyc[ev'.e][i].pc = "weights"
            /\ cyc[ev'.e][i].ndocs \in MinDocuments..LookbackLimit
            /\ rec.documentsProcessed =
                  cyc[ev'.e][i].cur.documentsProcessed + cyc[ev'.e][i].ndocs
            /\ \A r \in weightsStore :
                  r.id = lastPut => r.documentsProcessed <= rec.documentsProcessed]_vars

\* C27: no two records of the weights history carry the same version, also
\* when the engines of the main page and of the admin page work on the
\* same store.
C27_VersionsDistinct ==
    \A a \in weightsStore, b \in weightsStore : a.version = b.version => a.id = b.id

\* C29: initialize writes the default record only into a store without a
\* weights record, leaves the records of a store that has one as they are,
\* and when it has completed the store holds a current record.
C29_DefaultsOnlyWhenNoRecord ==
    [][/\ ev'.kind = "defaults" =>
             /\ weightsStore = {}
             /\ weightsStore' = {defaultWeights(lastPut', now)}
       /\ ev'.kind = "ready" => weightsStore # {} /\ UNCHANGED weightsStore
       /\ ev'.kind \in {"defaults", "defaults-lost", "ready"} =>
             GetCurrent(weightsStore') # Null]_vars

\* C30: a write completes only after its record is stored: whenever a
\* learning cycle reports its completion, the weights record it built has
\* been added to the store.
C30_CompletionMeansWritten ==
    [][ev'.kind \in {"completed", "completed-lost"} =>
          \E rec \in weightsStore' \ weightsStore : rec.id = lastPut']_vars

(***************************************************************************)
(* Properties of the quality analyzer                                      *)
(***************************************************************************)
InUnitInterval(x) == x[2] > 0 /\ RLe(Zero, x) /\ RLe(x, One)

\* C9: the overall score of every analysis is a number within [0, 1].
C9_OverallScoreInUnitInterval ==
    qaOut # Null => InUnitInterval(qaOut.overallScore)

\* C10: each of the five sub-scores of every analysis is within [0, 1].
C10_SubScoresInUnitInterval ==
    qaOut # Null =>
        /\ InUnitInterval(qaOut.coherenceScore)
        /\ InUnitInterval(qaOut.relevanceScore)
        /\ InUnitInterval(qaOut.compressionRatio)
        /\ InUnitInterval(qaOut.keywordCoverage)
        /\ InUnitInterval(qaOut.sentenceQuality)

\* C24: detectIssues reports the crossed thresholds in their order, then the
\* too-brief issue exactly when the summary has fewer than three sentences,
\* then the generation-error issue exactly when the summary contains
\* 'Unable to' or 'Error:', and nothing else.
C24_IssuesReported ==
    (qaOut # Null /\ "detectedIssues" \in DOMAIN qaOut) =>
        qaOut.detectedIssues =
            thresholdIssues(qaOut)
                \o IssueIf(Len(SentencesOf(qaIn.summary)) < 3, TooBrief)
                \o IssueIf(generationFailed(qaIn.summary), GenerationError)

\* the events of a step that shows an extracted text
ExtractionEvents == {"document", "document-failed", "document-lost", "not-recorded"}

\* C26: after every extraction currentDocumentId is null or the id that
\* recordDocument returned for the text now shown, and no other step changes
\* the text or the id.
C26_CurrentDocumentOfText ==
    [][IF ev'.kind \in ExtractionEvents
       THEN currentDocumentId' = Null \/ currentDocumentId' \notin IssuedDocumentIds
       ELSE UNCHANGED <<extractedText, currentDocumentId>>]_vars

(***************************************************************************)
(* Properties of the PDF reader                                            *)
(***************************************************************************)
IsReadable(page) == page.ok

ReadablePages(doc) == FilterSeq(doc.pages, IsReadable)

\* C25: a page that fails is skipped and the pages after it are still read:
\* the text returned is the cleaned concatenation, in page order, of the
\* texts of the pages that were read; a document that cannot be opened
\* yields no text but the error.
C25_FailedPagesSkipped ==
    /\ pdf.pc = "returned" =>
          /\ pdf.doc.opens
          /\ pdf.i = Len(pdf.doc.pages) + 1
          /\ pdf.text = cleanText(Join(MapSeq(ReadablePages(pdf.doc), pageText), " ") \o " ")
    /\ pdf.pc = "thrown" => ~pdf.doc.opens /\ pdf.text = ""
    /\ (pdf.pc # "idle" /\ ~pdf.doc.opens) => pdf.pc \in {"open", "thrown"}

\* the first and the third page of a document were read, the second failed
C25_Witness ==
    /\ pdf.pc = "returned"
    /\ pdf.doc = [opens |-> TRUE, pages |-> <<MixedPage, FailedPage, FirstPage>>]
    /\ pdf.text = "caf two (b) First page."

(***************************************************************************)
(* Properties of the Summarizer                                            *)
(***************************************************************************)
\* the sentences of a summary text: its fragments between runs of
\* terminators that are not blank, trimmed
SummarySentences(summary) == MapSeq(SentencesOf(summary), Trim)

\* the original sentence sequence of a text, trimmed
OriginalSentences(text) == MapSeq(analyzeText(text).sentences, Trim)

\* the elements of q at the positions in picked, in the order of q
SelectAt(q, picked) ==
    LET Keep(i) == i \in picked IN FilterRange(q, Keep, 1, Len(q))

IsSubsequence(a, q) == \E picked \in SUBSET (1..Len(q)) : a = SelectAt(q, picked)

\* C11: for a text with at least one sentence, the sentences of the summary
\* are the original sentences at strictly increasing positions: each is an
\* original sentence, no position is taken twice, the order is the original's.
C11_SummaryIsSubsequence ==
    \A i \in 1..Len(smRuns) :
        Len(OriginalSentences(smIn.text)) >= 1
        => IsSubsequence(SummarySentences(smRuns[i].result.summary),
                         OriginalSentences(smIn.text))

\* a summary of three of six sentences, of which the second scores highest
C11_Witness ==
    /\ Len(smRuns) >= 1
    /\ smIn.text = FiveSentences
    /\ Len(OriginalSentences(smIn.text)) = 6
    /\ smRuns[1].result.summary =
         "Plain opening words here. The main research shows results. Why and how does education matter."

IsUnable(result) ==
    /\ Len(result.summary) >= 18
    /\ SubSeq(result.summary, 1, 18) = "Unable to generate"
    /\ result.keyPhrases = <<>>

RespectsFloors(weights) ==
    weights = Null \/ \A n \in DOMAIN Floor : weights.weights[n] >= Floor[n]

\* C28: with weights that respect their floors and a text with at least one
\* sentence, the sentence at index 0 scores above 0, so the Summarizer does
\* not return the no-salient-content message and the summary has a sentence.
C28_FirstSentenceSalient ==
    \A i \in 1..Len(smRuns) :
        LET analysis == analyzeText(smIn.text)
            items == scoredSentences(analysis.sentences, analysis.topWords,
                                     learningWeightsOf(smIn.weights))
        IN  (RespectsFloors(smIn.weights) /\ Len(analysis.sentences) >= 1) =>
                /\ items[1].index = 0
                /\ items[1].score > 0
                /\ ~IsUnable(smRuns[i].result)
                /\ Len(SummarySentences(smRuns[i].result.summary)) >= 1

\* a run on a text whose first sentence scores by its position only, with
\* weights just above their floors
C28_Witness ==
    /\ Len(smRuns) >= 1
    /\ smIn.text = FiveSentences
    /\ smIn.weights = PriorRecord
    /\ scoredSentences(analyzeText(smIn.text).sentences, analyzeText(smIn.text).topWords,
                       learningWeightsOf(smIn.weights))[1].score
           = PriorRecord.weights.positionWeight * 100
    /\ smRuns[1].result.summary # NoSalientSentences

\* a and b are equal up to the case of their letters
SameIgnoringCase(a, b) ==
    Len(a) = Len(b) /\ \A i \in 1..Len(a) : LowerOf(Char(a, i)) = LowerOf(Char(b, i))

\* sub occurs in s as a substring, up to the case of the letters
OccursIgnoringCase(s, sub) ==
    \E i \in 1..(Len(s) - Len(sub) + 1) :
        SameIgnoringCase(SubSeq(s, i, i + Len(sub) - 1), sub)

\* C18: the keyword coverage is 1/2 for an empty list of key phrases, and
\* otherwise the number of key phrases that occur in the summary up to case,
\* divided by the number of key phrases.
C18_KeywordCoverage ==
    qaOut # Null =>
        LET phrases == qaIn.keyPhrases
            covered == Cardinality({i \in 1..Len(phrases) :
                           OccursIgnoringCase(qaIn.summary, phrases[i])})
        IN  IF Len(phrases) = 0 THEN qaOut.keywordCoverage = <<1, 2>>
            ELSE /\ qaOut.keywordCoverage[2] > 0
                 /\ qaOut.keywordCoverage[1] * Len(phrases)
                        = covered * qaOut.keywordCoverage[2]

\* the one key phrase "ant" occurs in the summary only as "Ant", and counts
C18_Witness ==
    /\ qaOut # Null
    /\ qaIn.keyPhrases = <<"ant">>
    /\ qaIn.summary = OneGoodSentence
    /\ ~Includes(qaIn.summary, "ant")
    /\ qaOut.keywordCoverage = <<1, 1>>

\* C19: with L and N the lengths of summary and original, the compression
\* score is 0 for N = 0, 1 for 0.1 <= L/N <= 0.3, (L/N)/0.1 for L/N < 0.1 and
\* max(0, 1 - (L/N - 0.3)/0.7) for L/N > 0.3.
C19_CompressionScore ==
    qaOut # Null =>
        LET L == Len(qaIn.summary)
            N == Len(qaIn.originalText)
            score == qaOut.compressionRatio
            \* score = num / den
            Is(num, den) == score[2] > 0 /\ score[1] * den = num * score[2]
        IN  IF N = 0 THEN Is(0, 1)
            ELSE IF 10 * L >= N /\ 10 * L <= 3 * N THEN Is(1, 1)
            ELSE IF 10 * L < N THEN Is(10 * L, N)
            ELSE IF L >= N THEN Is(0, 1)
            ELSE Is(10 * N - 10 * L, 7 * N)

\* a summary of 0 characters against an original of 100 characters scores 0
C19_Witness ==
    /\ qaOut # Null
    /\ Len(qaIn.summary) = 0
    /\ Len(qaIn.originalText) = 100
    /\ qaOut.compressionRatio = Zero

(***************************************************************************)
(* Properties of the URL extractor and of batch URL processing             *)
(***************************************************************************)
\* C14: a batch that has handled its list has one result per URL of the
\* list, in the order of the list; the result of a URL that was invalid or
\* whose extraction failed is an error, the result of a URL whose text was
\* extracted (and recorded) is a success, and every URL was handled.
C14_OneResultPerUrl ==
    /\ batch.pc # "idle" =>
          \A k \in 1..Len(batch.results) : batch.results[k].url = batch.urls[k]
    /\ batch.pc \in {"stats", "done"} =>
          /\ Len(batch.results) = Len(batch.urls)
          /\ Len(urlLog) = Len(batch.urls)
          /\ batch.kind = "admin" => batchResults = batch.results
          /\ \A k \in 1..Len(batch.urls) :
                /\ urlLog[k].url = batch.urls[k]
                /\ urlLog[k].outcome \in {"invalid", "failed"}
                      => batch.results[k].status = "error"
                /\ urlLog[k].outcome = "text"
                      => batch.results[k].status = "success"

\* the admin page's batch of three URLs is done: the first extraction
\* failed, the second URL was invalid, the third was extracted and recorded
C14_Witness ==
    /\ batch.pc = "done" /\ batch.kind = "admin"
    /\ Len(batch.urls) = 3
    /\ urlLog[1].outcome = "failed" /\ batchResults[1].status = "error"
    /\ urlLog[2].outcome = "invalid" /\ batchResults[2].status = "error"
    /\ urlLog[3].outcome = "text" /\ batchResults[3].status = "success"
    /\ batchResults[3].documentId \in documents

\* C15: the items of a batch are handled one after the other in the order
\* of the list, and an item starts no earlier than the fixed delay after
\* the item before it has ended, whether that one succeeded or failed.
C15_DelayBetweenItems ==
    \A k \in 1..Len(urlLog) :
        /\ urlLog[k].url = batch.urls[k]
        /\ k < Len(urlLog) =>
              /\ urlLog[k].outcome # "pending"
              /\ urlLog[k + 1].start >= urlLog[k].end + BatchDelay

\* the scheme is http or https and the path has .pdf in it
HttpPdfPath(url) ==
    LET urlObj == ParseURL(url)
    IN  IF urlObj = Null THEN FALSE
        ELSE /\ urlObj.protocol \in {"http:", "https:"}
             /\ Includes(ToLower(urlObj.pathname), ".pdf")

\* C16: extractFromURL fetches a URL only if its scheme is http or https
\* and its path has a .pdf segment; any other URL fails with the invalid-URL
\* error, without a fetch and without a record.
C16_FetchOnlyPdfPath ==
    \A k \in 1..Len(urlLog) :
        IF HttpPdfPath(urlLog[k].url)
        THEN urlLog[k].fetched
        ELSE /\ ~urlLog[k].fetched
             /\ urlLog[k].outcome = "invalid"
             /\ batch.results[k].error = "Invalid PDF URL"
             /\ batch.results[k].documentId = Null

\* C17: in every reachable state of the store, the documentId of each
\* Summary record is the id of a Document record that is in the store.
C17_SummaryReferencesDocument ==
    \A s \in summaries : s.documentId \in documents

\* C20: when storing the summary fails, generateSummary has shown the
\* summary and the key phrases, reports success and not an error, and has
\* cleared the processing flag; when the quality analysis fails, the page
\* and the stored summaries are as they were.
C20_RecordFailureDoesNotBlock ==
    [][/\ ev'.kind = "summary-record-failed" =>
            LET result == PageSummaries[gen.text, gen.weights, gen.level]
            IN  /\ gen.pc = "weights"
                /\ summaryShown' = FormatSummary(gen.level, result.summary)
                /\ keyPhrasesShown' = result.keyPhrases
                /\ currentStep' = GeneratedStep
                /\ ~isProcessing'
                /\ gen' = NoGen
                /\ summaries' = summaries
       /\ ev'.kind = "analysis-failed" =>
            UNCHANGED <<summaryShown, keyPhrasesShown, currentStep, isProcessing,
                        gen, summaries>>]_vars

\* storeSummary has thrown for the summary of a recorded document: the
\* summary and its key phrases are on the page and the flag is cleared
C20_Witness ==
    /\ ev.kind = "summary-record-failed"
    /\ currentDocumentId \in documents
    /\ summaries = {}
    /\ summaryShown = FormatSummary(summaryLevel,
           PageSummaries[FiveSentences, GetCurrent(PageWeights), summaryLevel].summary)
    /\ keyPhrasesShown # <<>>
    /\ currentStep = GeneratedStep
    /\ ~isProcessing

(***************************************************************************)
(* Properties of the selection of sentences                                *)
(***************************************************************************)
\* Math.min(hi, Math.max(lo, x))
Clamp(x, lo, hi) == IF x < lo THEN lo ELSE IF x > hi THEN hi ELSE x

\* the salient items that are preferred to item i: those of a higher score,
\* or of the same score and a lower index
Preferred(items, i) ==
    {j \in 1..Len(items) :
        /\ items[j].score > 0
        /\ \/ items[j].score > items[i].score
           \/ items[j].score = items[i].score /\ j < i}

\* the first k of the salient items by score descending, ties by index
\* ascending, or all of them if they are fewer
TopChoice(items, k) ==
    {i \in 1..Len(items) : items[i].score > 0 /\ Cardinality(Preferred(items, i)) < k}

\* C21: with N sentences and k = clamp(floor(0.2 N), 4, 12) for professor,
\* clamp(floor(0.15 N), 3, 8) for student, the summary is made of exactly
\* min(k, number of salient sentences) sentences, in the order of the text,
\* and they are the salient sentences first by score descending, ties by
\* index ascending.
C21_TopSentencesSelected ==
    \A r \in 1..Len(smRuns) :
        \E analysis \in {analyzeText(smIn.text)} :
            LET N == Len(analysis.sentences)
                k == IF smIn.level = "professor"
                     THEN Clamp((20 * N) \div 100, 4, 12)
                     ELSE Clamp((15 * N) \div 100, 3, 8)
            IN  \E items \in {scoredSentences(analysis.sentences, analysis.topWords,
                                              learningWeightsOf(smIn.weights))} :
                  \E salient \in {{i \in 1..N : items[i].score > 0}},
                     picked \in {TopChoice(items, k)} :
                     salient # {} =>
                        /\ Cardinality(picked) = Min(k, Cardinality(salient))
                        /\ smRuns[r].result.summary =
                              Join(MapSeq(SelectAt(items, picked), SentenceOf), ". ") \o "."

\* of twenty-seven salient sentences, of which the first five score the
\* same and highest, the student summary has the first four
C21_Witness ==
    /\ Len(smRuns) >= 1
    /\ smIn.text = ManySentences /\ smIn.level = "student" /\ smIn.weights = Null
    /\ smRuns[1].result.summary =
         "Note aa stays here. Note ab stays here. Note ac stays here. Note ad stays here."

====
